---- MODULE Spec2Model ----
(***************************************************************************)
(* A model of the movie-recommendation bot: title extraction, the two      *)
(* relevance validators, the language helper, the persistence store and    *)
(* the two recommendation orchestrators (core/engine.py and the older      *)
(* recommendation.py).                                                     *)
(*                                                                         *)
(* Text is modelled at character level: a string is a sequence of          *)
(* one-character strings.  Cyrillic letters are written in a Latin         *)
(* transliteration, one Latin letter for one Cyrillic letter (an upper-case *)
(* Latin letter stands for the upper-case Cyrillic letter); "<" and ">"    *)
(* stand for the guillemets, "'" for the ASCII double quote and "^" for    *)
(* the ASCII apostrophe.  The value None is written <<"None">> where a     *)
(* text can stand as well.                                                 *)
(***************************************************************************)
EXTENDS Integers, Sequences, FiniteSets, TLC

VARIABLES
    args,               \* pure-function harness: the arguments of the call
    ret,                \* pure-function harness: the returned value (NoRet before the call)
    movies,             \* store: the rows of table movies
    ratings,            \* store: the rows of table ratings
    history,            \* store: the rows of table history, in insertion order
    user_preferences,   \* store: the rows of table user_preferences
    sqlite_sequence,    \* store: AUTOINCREMENT counters, one per table
    last_insert_rowid,  \* store: the connection's last inserted rowid
    calls,              \* store harness: the calls made so far, latest last
    eng,                \* core/engine.py: the state of each generate_recommendations call
    outbound,           \* the latest outbound call (generation, translation, provider search)
    leg,                \* recommendation.py: the state of the engine and of its current call
    client,             \* agents: the state of a call of a retrying client method
    bot                 \* tg_bot: the feedback table, the replies sent and the users' data

pureVars == <<args, ret>>
storeVars == <<movies, ratings, history, user_preferences, sqlite_sequence, last_insert_rowid>>
vars == <<args, ret, movies, ratings, history, user_preferences, sqlite_sequence,
          last_insert_rowid, calls, eng, outbound, leg, client, bot>>

\* the returned value is held as a one-element sequence, so that "nothing yet" is <<>>
NoRet == <<>>
NoArgs == [fn |-> "none"]
None == "None"
NoneText == <<"None">>

(***************************************************************************)
(* Text primitives (Python str operations used by the code)                *)
(***************************************************************************)

\* the letters of the alphabet, as <<upper case, lower case>> (str.lower / str.upper on one
\* character); transliteration: a b v d e j z i k l m n o p r s t u h c y x w q stand for
\* the Cyrillic a, be, ve, de, ie, zhe, ze, i, ka, el, em, en, o, pe, er, es, te, u, ha, che, yeru, e, yu, ya
CyrillicPairs ==
    { <<"A", "a">>, <<"B", "b">>, <<"C", "c">>, <<"D", "d">>, <<"E", "e">>, <<"H", "h">>,
      <<"I", "i">>, <<"J", "j">>, <<"K", "k">>, <<"L", "l">>, <<"M", "m">>, <<"N", "n">>,
      <<"O", "o">>, <<"P", "p">>, <<"Q", "q">>, <<"R", "r">>, <<"S", "s">>, <<"T", "t">>,
      <<"U", "u">>, <<"V", "v">>, <<"W", "w">>, <<"X", "x">>, <<"Y", "y">>, <<"Z", "z">> }

\* the Latin letters of the alphabet are written with a dot
LatinPairs ==
    { <<"Y.", "y.">>, <<"E.", "e.">>, <<"S.", "s.">>, <<"N.", "n.">>, <<"R.", "r.">>, <<"U.", "u.">>,
      <<"K.", "k.">> }

\* the regex class [a-z]
LatinLower == { p[2] : p \in LatinPairs }

CasePairs == CyrillicPairs \cup LatinPairs

\* the regex classes [A-YA] and [a-ya] (Cyrillic capitals, Cyrillic small letters)
UpperLetters == { p[1] : p \in CyrillicPairs }

LowerLetters == { p[2] : p \in CyrillicPairs }

Digits == { "0", "1", "2", "4" }

IsSpace(c) == c = " "

\* \w of the re module: letters, digits and the underscore
IsLetter(c) == \E p \in CasePairs : c \in {p[1], p[2]}

IsWordChar(c) == IsLetter(c) \/ c \in Digits \/ c = "_"

LowerChar(c) ==
    IF \E p \in CasePairs : p[1] = c THEN (CHOOSE p \in CasePairs : p[1] = c)[2] ELSE c

UpperChar(c) ==
    IF \E p \in CasePairs : p[2] = c THEN (CHOOSE p \in CasePairs : p[2] = c)[1] ELSE c

\* str.lower, str.upper
Lower(s) == [i \in 1..Len(s) |-> LowerChar(s[i])]

Upper(s) == [i \in 1..Len(s) |-> UpperChar(s[i])]

Min(a, b) == IF a <= b THEN a ELSE b

\* s[lo:hi] with 0-based, end-exclusive Python indices
Slice(s, lo, hi) == IF hi <= lo THEN <<>> ELSE SubSeq(s, lo + 1, hi)

\* str.strip() (whitespace)
RECURSIVE LStrip(_)
LStrip(s) == IF s # <<>> /\ IsSpace(Head(s)) THEN LStrip(Tail(s)) ELSE s

RECURSIVE RStrip(_)
RStrip(s) ==
    IF s # <<>> /\ IsSpace(s[Len(s)]) THEN RStrip(SubSeq(s, 1, Len(s) - 1)) ELSE s

Strip(s) == RStrip(LStrip(s))

\* str.split(): the maximal runs of non-whitespace characters
RECURSIVE SplitFrom(_, _)
SplitFrom(s, cur) ==
    IF s = <<>> THEN (IF cur = <<>> THEN <<>> ELSE <<cur>>)
    ELSE IF IsSpace(Head(s))
         THEN (IF cur = <<>> THEN <<>> ELSE <<cur>>) \o SplitFrom(Tail(s), <<>>)
         ELSE SplitFrom(Tail(s), Append(cur, Head(s)))

Split(s) == SplitFrom(s, <<>>)

\* " ".join(words)
RECURSIVE JoinWords(_)
JoinWords(ws) ==
    IF ws = <<>> THEN <<>>
    ELSE IF Len(ws) = 1 THEN ws[1]
    ELSE ws[1] \o <<" ">> \o JoinWords(Tail(ws))

\* Python "a in b" for strings: a is a contiguous part of b
Contains(b, a) ==
    \E i \in 0..(Len(b) - Len(a)) : Slice(b, i, i + Len(a)) = a

StartsWith(s, p) == Len(p) <= Len(s) /\ SubSeq(s, 1, Len(p)) = p

EndsWith(s, p) == Len(p) <= Len(s) /\ SubSeq(s, Len(s) - Len(p) + 1, Len(s)) = p

\* str.title(): the first letter of every run of letters upper-cased, the rest lower-cased
Title(s) ==
    [i \in 1..Len(s) |->
        IF i = 1 \/ ~IsLetter(s[i - 1])
        THEN UpperChar(s[i]) ELSE LowerChar(s[i])]

(***************************************************************************)
(* difflib.SequenceMatcher(None, a, b).ratio()                             *)
(***************************************************************************)

\* the length of the longest common run starting at a[i], b[j] (0-based), within the windows
RECURSIVE RunLen(_, _, _, _, _, _)
RunLen(a, b, i, j, ahi, bhi) ==
    IF i < ahi /\ j < bhi /\ a[i + 1] = b[j + 1]
    THEN 1 + RunLen(a, b, i + 1, j + 1, ahi, bhi)
    ELSE 0

\* find_longest_match: the longest block, the earliest in a, then the earliest in b
FindLongestMatch(a, b, alo, ahi, blo, bhi) ==
    LET Cands == { <<i, j>> \in (alo..(ahi - 1)) \X (blo..(bhi - 1)) : TRUE }
        best == IF Cands = {} THEN 0
                ELSE CHOOSE k \in 0..(ahi - alo) :
                        /\ \A c \in Cands : RunLen(a, b, c[1], c[2], ahi, bhi) <= k
                        /\ (k > 0 => \E c \in Cands : RunLen(a, b, c[1], c[2], ahi, bhi) = k)
                        /\ (k = 0 => \A c \in Cands : RunLen(a, b, c[1], c[2], ahi, bhi) = 0)
    IN  IF best = 0 THEN <<alo, blo, 0>>
        ELSE LET Top == { c \in Cands : RunLen(a, b, c[1], c[2], ahi, bhi) = best }
                 i0 == CHOOSE i \in { c[1] : c \in Top } : \A c \in Top : i <= c[1]
                 j0 == CHOOSE j \in { c[2] : c \in { d \in Top : d[1] = i0 } } :
                           \A c \in { d \in Top : d[1] = i0 } : j <= c[2]
             IN  <<i0, j0, best>>

\* the total size of get_matching_blocks() over the windows
RECURSIVE MatchSize(_, _, _, _, _, _)
MatchSize(a, b, alo, ahi, blo, bhi) ==
    IF alo >= ahi \/ blo >= bhi THEN 0
    ELSE LET m == FindLongestMatch(a, b, alo, ahi, blo, bhi)
         IN  IF m[3] = 0 THEN 0
             ELSE m[3] + MatchSize(a, b, alo, m[1], blo, m[2])
                       + MatchSize(a, b, m[1] + m[3], ahi, m[2] + m[3], bhi)

Matches(a, b) == MatchSize(a, b, 0, Len(a), 0, Len(b))

\* ratio() >= num/den, with ratio() = 2.0*M/T and 1.0 for two empty strings
RatioAtLeast(a, b, num, den) ==
    IF Len(a) + Len(b) = 0 THEN num <= den
    ELSE 2 * Matches(a, b) * den >= num * (Len(a) + Len(b))

RatioBelow(a, b, num, den) == ~RatioAtLeast(a, b, num, den)

(***************************************************************************)
(* Title extraction: core/engine.py, _extract_movie_titles_from_llm_response *)
(***************************************************************************)

DigitVal(c) == CASE c = "0" -> 0 [] c = "1" -> 1 [] c = "2" -> 2 [] c = "4" -> 4 [] OTHER -> 0

\* int(year_str) of a run of digits
RECURSIVE IntOf(_)
IntOf(ds) == IF ds = <<>> THEN 0 ELSE 10 * IntOf(SubSeq(ds, 1, Len(ds) - 1)) + DigitVal(ds[Len(ds)])

\* the first position >= p (0-based) that holds no whitespace
RECURSIVE SkipSpaces(_, _)
SkipSpaces(t, p) == IF p < Len(t) /\ IsSpace(t[p + 1]) THEN SkipSpaces(t, p + 1) ELSE p

NoMatch == [ok |-> FALSE]

\* the regex tail  \s*\((\d{4})\)  tried at position p
YearAt(t, p) ==
    LET q == SkipSpaces(t, p)
    IN  IF /\ q + 6 <= Len(t)
           /\ t[q + 1] = "("
           /\ \A d \in 2..5 : t[q + d] \in Digits
           /\ t[q + 6] = ")"
        THEN [ok |-> TRUE, year |-> IntOf(Slice(t, q + 1, q + 5)), end |-> q + 6]
        ELSE NoMatch

\* open([^close]+)close\s*\((\d{4})\)  tried at position i: patterns 1 and 2
MatchQuoted(t, i, open, close) ==
    IF i < Len(t) /\ t[i + 1] = open /\ \E j \in (i + 1)..(Len(t) - 1) : t[j + 1] = close
    THEN LET j == CHOOSE j \in (i + 1)..(Len(t) - 1) :
                      t[j + 1] = close /\ \A k \in (i + 1)..(j - 1) : t[k + 1] # close
             y == YearAt(t, j + 1)
         IN  IF j > i + 1 /\ y.ok
             THEN [ok |-> TRUE, title |-> Slice(t, i + 1, j), year |-> y.year, end |-> y.end]
             ELSE NoMatch
    ELSE NoMatch

\* ([^,;]+?)\s*\((\d{4})\)  tried at position i: pattern 3 (the shortest title that works)
MatchBare(t, i) ==
    LET Ks == { k \in 1..(Len(t) - i) :
                  /\ \A c \in i..(i + k - 1) : t[c + 1] \notin {",", ";"}
                  /\ YearAt(t, i + k).ok }
    IN  IF Ks = {} THEN NoMatch
        ELSE LET k == CHOOSE k \in Ks : \A k2 \in Ks : k <= k2
                 y == YearAt(t, i + k)
             IN  [ok |-> TRUE, title |-> Slice(t, i, i + k), year |-> y.year, end |-> y.end]

PatternGuillemets == 1
PatternQuotes == 2
PatternBare == 3

\* open([^close]+)close  tried at position i: the patterns without a year of
\* recommendation.py, _extract_movie_titles
MatchSimple(t, i, open, close) ==
    IF i < Len(t) /\ t[i + 1] = open /\ \E j \in (i + 1)..(Len(t) - 1) : t[j + 1] = close
    THEN LET j == CHOOSE j \in (i + 1)..(Len(t) - 1) :
                      t[j + 1] = close /\ \A k \in (i + 1)..(j - 1) : t[k + 1] # close
         IN  IF j > i + 1
             THEN [ok |-> TRUE, title |-> Slice(t, i + 1, j), year |-> 0, end |-> j + 1]
             ELSE NoMatch
    ELSE NoMatch

PatternSimpleQuotes == 4
PatternSimpleGuillemets == 5

MatchAt(pattern, t, i) ==
    CASE pattern = PatternGuillemets -> MatchQuoted(t, i, "<", ">")
      [] pattern = PatternQuotes -> MatchQuoted(t, i, "'", "'")
      [] pattern = PatternSimpleQuotes -> MatchSimple(t, i, "'", "'")
      [] pattern = PatternSimpleGuillemets -> MatchSimple(t, i, "<", ">")
      [] OTHER -> MatchBare(t, i)

\* re.finditer(pattern, text): the non-overlapping matches, scanning from the left
RECURSIVE FindIter(_, _, _)
FindIter(pattern, t, pos) ==
    IF pos >= Len(t) THEN <<>>
    ELSE LET m == MatchAt(pattern, t, pos)
         IN  IF m.ok THEN <<m>> \o FindIter(pattern, t, m.end)
             ELSE FindIter(pattern, t, pos + 1)

InSeq(x, seq) == \E i \in 1..Len(seq) : seq[i] = x

\* the inner loop: append (title.strip(), year) unless it is already in the list
RECURSIVE AppendMatches(_, _)
AppendMatches(extracted, ms) ==
    IF ms = <<>> THEN extracted
    ELSE LET pair == <<Strip(Head(ms).title), Head(ms).year>>
         IN  AppendMatches(IF InSeq(pair, extracted) THEN extracted
                           ELSE Append(extracted, pair), Tail(ms))

\* the order of the "patterns" list
Patterns == <<PatternGuillemets, PatternQuotes, PatternBare>>

RECURSIVE ExtractWith(_, _, _)
ExtractWith(pats, extracted, t) ==
    IF pats = <<>> THEN extracted
    ELSE ExtractWith(Tail(pats), AppendMatches(extracted, FindIter(Head(pats), t, 0)), t)

extract_movie_titles_from_llm_response(llm_response_text) ==
    ExtractWith(Patterns, <<>>, llm_response_text)

(***************************************************************************)
(* Person names in a query: recommendation.py, _normalize_person_name,     *)
(* _names_match and the actor / director patterns of _validate_movie_match *)
(***************************************************************************)

\* the words used below, letter by letter
W_s == <<"s">>
W_akter == <<"a", "k", "t", "e", "r">>
W_ucastie == <<"u", "c", "a", "s", "t", "i", "e">>
W_ot == <<"o", "t">>
W_rejissera == <<"r", "e", "j", "i", "s", "s", "e", "r", "a">>
W_rejisser == <<"r", "e", "j", "i", "s", "s", "e", "r">>
W_Tom == <<"T", "o", "m">>
W_Hxnks == <<"H", "x", "n", "k", "s">>
W_Brxd == <<"B", "r", "x", "d">>
W_Pitt == <<"P", "i", "t", "t">>

\* the text literal w stands at position p (0-based) of t
LitAt(t, p, w) == p >= 0 /\ p + Len(w) <= Len(t) /\ Slice(t, p, p + Len(w)) = w

\* the end of the maximal run of lower-case letters that starts at p: [a-ya]* taken greedily
RECURSIVE LowerRunEnd(_, _)
LowerRunEnd(t, p) ==
    IF p < Len(t) /\ t[p + 1] \in LowerLetters THEN LowerRunEnd(t, p + 1) ELSE p

\* one word of a name, [A-YA][a-ya]+[...]? , at position p: its end, or -1.  The optional
\* final class holds lower-case letters only, so the word is a capital and a maximal run
\* of at least one lower-case letter.
NameWordEnd(t, p) ==
    IF p < Len(t) /\ t[p + 1] \in UpperLetters /\ LowerRunEnd(t, p + 1) > p + 1
    THEN LowerRunEnd(t, p + 1) ELSE -1

\* \s+ at position p: the position after the run of whitespace, or -1
SpacesEnd(t, p) == IF p >= 0 /\ SkipSpaces(t, p) > p THEN SkipSpaces(t, p) ELSE -1

\* the capture group  Word\s+Word  at position p
NameAt(t, p) ==
    LET e1 == IF p >= 0 THEN NameWordEnd(t, p) ELSE -1
        s2 == SpacesEnd(t, e1)
        e2 == IF s2 >= 0 THEN NameWordEnd(t, s2) ELSE -1
    IN  IF e2 >= 0 THEN [ok |-> TRUE, title |-> Slice(t, p, e2), end |-> e2] ELSE NoMatch

\* the part of each pattern before the capture group, tried at position i: the position
\* where the group has to start, or -1
PrefixEnd(pattern, t, i) ==
    CASE pattern = "actor_s" ->
            IF LitAt(t, i, W_s) THEN SpacesEnd(t, i + 1) ELSE -1
      [] pattern = "actor_akter" ->
            IF LitAt(t, i, W_akter) THEN SpacesEnd(t, LowerRunEnd(t, i + Len(W_akter))) ELSE -1
      [] pattern = "actor_ucastie" ->
            IF /\ LitAt(t, i, W_ucastie)
               /\ i + Len(W_ucastie) < Len(t)
               /\ t[i + Len(W_ucastie) + 1] \in {"m", "n"}
            THEN SpacesEnd(t, i + Len(W_ucastie) + 1) ELSE -1
      [] pattern = "director_ot" ->
            IF LitAt(t, i, W_ot)
            THEN LET s1 == SpacesEnd(t, i + Len(W_ot))
                 IN  IF s1 >= 0 /\ LitAt(t, s1, W_rejissera)
                     THEN SpacesEnd(t, s1 + Len(W_rejissera))
                     ELSE s1
            ELSE -1
      [] pattern = "director_rejisser" ->
            IF LitAt(t, i, W_rejisser)
            THEN SpacesEnd(t, LowerRunEnd(t, i + Len(W_rejisser))) ELSE -1

PersonMatchAt(pattern, t, i) == NameAt(t, PrefixEnd(pattern, t, i))

\* re.findall(pattern, user_query): the captured names of the non-overlapping matches
RECURSIVE FindAllNames(_, _, _)
FindAllNames(pattern, t, pos) ==
    IF pos >= Len(t) THEN <<>>
    ELSE LET m == PersonMatchAt(pattern, t, pos)
         IN  IF m.ok THEN <<m.title>> \o FindAllNames(pattern, t, m.end)
             ELSE FindAllNames(pattern, t, pos + 1)

actor_patterns == <<"actor_s", "actor_akter", "actor_ucastie">>
director_patterns == <<"director_ot", "director_rejisser">>

\* the rows of name_mapping whose letters are in the alphabet: <<key, nominative>>
name_mapping ==
    { << Lower(W_Tom \o <<"o", "m", " ">> \o W_Hxnks \o <<"o", "m">>), W_Tom \o <<" ">> \o W_Hxnks >>,
      << Lower(W_Tom \o <<"a", " ">> \o W_Hxnks \o <<"a">>), W_Tom \o <<" ">> \o W_Hxnks >>,
      << Lower(W_Brxd \o <<"a", " ">> \o W_Pitt \o <<"a">>), W_Brxd \o <<" ">> \o W_Pitt >>,
      << Lower(W_Brxd \o <<"o", "m", " ">> \o W_Pitt \o <<"o", "m">>), W_Brxd \o <<" ">> \o W_Pitt >> }

EndsWithAny(s, sufs) == \E suf \in sufs : EndsWith(s, suf)

CaseEndings2First == { <<"o", "m">>, <<"e", "m">>, <<"y", "m">> }
CaseEndings2Last == { <<"o", "m">>, <<"e", "m">>, <<"y", "m">>, <<"i", "m">> }
CaseEndings1 == { <<"a">>, <<"q">>, <<"u">>, <<"w">>, <<"y">>, <<"i">>, <<"e">> }

\* the oblique-case ending of one word removed: two letters, or one letter of a word
\* longer than minLen
StripCaseEnding(word, endings2, minLen) ==
    IF EndsWithAny(Lower(word), endings2) THEN Slice(word, 0, Len(word) - 2)
    ELSE IF EndsWithAny(Lower(word), CaseEndings1) /\ Len(word) > minLen
         THEN Slice(word, 0, Len(word) - 1)
         ELSE word

normalize_person_name(name) ==
    LET name_lower == Strip(Lower(name))
        words == Split(name)
    IN  IF \E row \in name_mapping : row[1] = name_lower
        THEN (CHOOSE row \in name_mapping : row[1] = name_lower)[2]
        ELSE IF Len(words) = 2
             THEN Title(StripCaseEnding(words[1], CaseEndings2First, 3)) \o <<" ">>
                  \o Title(StripCaseEnding(words[2], CaseEndings2Last, 4))
             ELSE Title(name)

SeqToSet(seq) == { seq[i] : i \in 1..Len(seq) }

\* the set requested_actors / requested_directors: the normalized, lower-cased names
RequestedPersons(patterns, user_query) ==
    { Lower(normalize_person_name(Strip(m))) :
        m \in UNION { SeqToSet(FindAllNames(patterns[i], user_query, 0)) : i \in 1..Len(patterns) } }

names_match(name1, name2) ==
    LET parts1 == Split(name1)
        parts2 == Split(name2)
    IN  IF Len(parts1) >= 2 /\ Len(parts2) >= 2
        THEN /\ (Contains(parts2[1], parts1[1]) \/ Contains(parts1[1], parts2[1]))
             /\ (Contains(parts2[Len(parts2)], parts1[Len(parts1)])
                    \/ Contains(parts1[Len(parts1)], parts2[Len(parts2)]))
        ELSE FALSE

\* one requested person is found in the lower-cased cast / crew list
PersonFound(requested, movie_persons_lower) ==
    \E k \in 1..Len(movie_persons_lower) :
        \/ Contains(movie_persons_lower[k], requested)
        \/ Contains(requested, movie_persons_lower[k])
        \/ names_match(requested, movie_persons_lower[k])

LowerAll(names) == [k \in 1..Len(names) |-> Lower(names[k])]

(***************************************************************************)
(* recommendation.py: _fallback_validation and _validate_movie_match       *)
(***************************************************************************)

G_boevik == <<"b", "o", "e", "v", "i", "k">>
G_komediq == <<"k", "o", "m", "e", "d", "i", "q">>
G_drama == <<"d", "r", "a", "m", "a">>
G_ujasy == <<"u", "j", "a", "s", "y">>
G_triller == <<"t", "r", "i", "l", "l", "e", "r">>
G_melodrama == <<"m", "e", "l", "o", "d", "r", "a", "m", "a">>
G_romantika == <<"r", "o", "m", "a", "n", "t", "i", "k", "a">>
G_kriminal == <<"k", "r", "i", "m", "i", "n", "a", "l">>
G_priklwceniq == <<"p", "r", "i", "k", "l", "w", "c", "e", "n", "i", "q">>
G_detsk == <<"d", "e", "t", "s", "k">>

\* genre_keywords: <<keyword of the query, the genres it lets expect>>.  Of every list of the
\* function only the words that can be written in the alphabet are kept: the others occur in
\* no text of the model.
\* further words of the tables; sh, ts, f, mz and ij stand for the Cyrillic sha, tse, ef, the
\* soft sign and short i, and a Latin word is written with dotted letters
G_xkshn == <<"x", "k", "sh", "n">>
G_action == <<"a.", "c.", "t.", "i.", "o.", "n.">>
G_comedy == <<"c.", "o.", "m.", "e.", "d.", "y.">>
G_drama_en == <<"d.", "r.", "a.", "m.", "a.">>
G_horror == <<"h", "o", "r", "r", "o", "r">>
G_horror_en == <<"h.", "o.", "r.", "r.", "o.", "r.">>
G_fantastika == <<"f", "a", "n", "t", "a", "s", "t", "i", "k", "a">>
G_scifi == <<"s.", "c.", "i.", "-", "f.", "i.">>
G_naucnaq_fantastika == <<"n", "a", "u", "c", "n", "a", "q", " ", "f", "a", "n", "t", "a", "s", "t", "i", "k", "a">>
G_thriller == <<"t.", "h.", "r.", "i.", "l.", "l.", "e.", "r.">>
G_romance == <<"r.", "o.", "m.", "a.", "n.", "c.", "e.">>
G_detektiv == <<"d", "e", "t", "e", "k", "t", "i", "v">>
G_mystery == <<"m.", "y.", "s.", "t.", "e.", "r.", "y.">>
G_animaciq == <<"a", "n", "i", "m", "a", "ts", "i", "q">>
G_multfilm == <<"m", "u", "l", "mz", "t", "f", "i", "l", "mz", "m">>
G_animation == <<"a.", "n.", "i.", "m.", "a.", "t.", "i.", "o.", "n.">>
G_dokumentalnyj == <<"d", "o", "k", "u", "m", "e", "n", "t", "a", "l", "mz", "n", "y", "ij">>
G_documentary == <<"d.", "o.", "c.", "u.", "m.", "e.", "n.", "t.", "a.", "r.", "y.">>
G_romanticeskij == <<"r", "o", "m", "a", "n", "t", "i", "c", "e", "s", "k", "i", "ij">>
G_detskij == <<"d", "e", "t", "s", "k", "i", "ij">>
G_vzroslyj == <<"v", "z", "r", "o", "s", "l", "y", "ij">>

\* lines 1313-1324: the keyword of a query and the genres it stands for
genre_keywords ==
    { <<G_boevik, {G_boevik, G_xkshn, G_action}>>,
      <<G_komediq, {G_komediq, G_comedy}>>,
      <<G_drama, {G_drama, G_drama_en}>>,
      <<G_ujasy, {G_ujasy, G_horror, G_horror_en}>>,
      <<G_fantastika, {G_fantastika, G_scifi, G_naucnaq_fantastika}>>,
      <<G_triller, {G_triller, G_thriller}>>,
      <<G_melodrama, {G_melodrama, G_romantika, G_romance}>>,
      <<G_detektiv, {G_detektiv, G_mystery}>>,
      <<G_animaciq, {G_animaciq, G_multfilm, G_animation}>>,
      <<G_dokumentalnyj, {G_dokumentalnyj, G_documentary}>> }

\* line 1345: the words of a query that ask for an action film
action_words == {G_boevik, G_xkshn, G_action}

comedy_romance_indicators == {G_melodrama, G_komediq, G_romanticeskij, G_romantika}
action_genres == {G_boevik, G_xkshn, G_triller, G_kriminal, G_priklwceniq}
non_action_genres == {G_melodrama, G_komediq, G_dokumentalnyj}

non_matching_patterns ==
    { <<G_boevik, {G_melodrama, G_komediq, G_dokumentalnyj}>>,
      <<G_ujasy, {G_komediq, G_melodrama, G_detskij}>>,
      <<G_komediq, {G_ujasy, G_triller, G_drama}>>,
      <<G_detsk, {G_ujasy, G_triller, G_vzroslyj}>> }

\* a list with an element that is None and not a string: a method of str applied to the
\* element, and ', '.join of the list, raise
HasNone(list) == \E i \in 1..Len(list) : list[i] = NoneText

\* lines 1327-1333: the keywords found in the query and the genres they stand for
found_keywords(query_lower) == { row[1] : row \in { r \in genre_keywords : Contains(query_lower, r[1]) } }

expected_genres(query_lower) ==
    UNION { row[2] : row \in { r \in genre_keywords : Contains(query_lower, r[1]) } }

\* _fallback_validation; an exception (g.lower() of a genre that is no string) is caught by
\* its own handler, which returns True
fallback_validation(movie_data, user_query) ==
    LET genres == { Lower(g) : g \in SeqToSet(movie_data.genres) }
        query_lower == Lower(user_query)
    IN  IF HasNone(movie_data.genres) THEN TRUE
        ELSE IF /\ \E word \in action_words : Contains(query_lower, word)
                /\ genres \cap comedy_romance_indicators # {}
        THEN FALSE
        ELSE IF expected_genres(query_lower) # {}
        THEN IF /\ G_boevik \in found_keywords(query_lower)
                /\ genres \cap non_action_genres # {}
                /\ genres \cap action_genres = {}
             THEN FALSE
             ELSE genres \cap expected_genres(query_lower) # {}
        ELSE ~ \E row \in non_matching_patterns :
                    Contains(query_lower, row[1]) /\ genres \cap row[2] # {}

W_DA == <<"D", "A">>
W_YES == <<"Y.", "E.", "S.">>

\* the outcomes of model.generate_content: an answer text, or an exception
LlmRaises == [raises |-> TRUE, text |-> <<>>]
LlmAnswer(text) == [raises |-> FALSE, text |-> text]

\* the outcomes of the yes/no generation call
LlmOutcomes == { LlmRaises, LlmAnswer(<<"D", "a">>), LlmAnswer(<<"N", "e", "t">>),
                 LlmAnswer(<<" ">> \o W_YES) }

Verdict(result, llm_calls, fallback) ==
    [result |-> result, llm_calls |-> llm_calls, fallback |-> fallback]

\* the yes/no generation call and the reading of its answer (the inner try)
AiValidation(movie_data, user_query, llm) ==
    IF llm.raises
    THEN Verdict(fallback_validation(movie_data, user_query), 1, TRUE)
    ELSE LET validation_result == Upper(Strip(llm.text))
         IN  Verdict(Contains(validation_result, W_DA) \/ Contains(validation_result, W_YES),
                     1, FALSE)

\* a falsy movie_data: no record at all
NoMovieData ==
    [found |-> FALSE, title |-> <<>>, actors |-> <<>>, directors |-> <<>>, genres |-> <<>>]

\* the two strict checks and the composition of movie_description (lines 1147-1216):
\* "rejected" when a requested actor or director is not found in the cast / crew list,
\* "none_requested" when the query names nobody, else "all_found"; "raised" when a statement
\* raises before the outcome is reached (lower() of a list element, or ', '.join of a list
\* for the description, with an element that is no string)
StrictChecks(movie_data, user_query) ==
    LET requested_actors == RequestedPersons(actor_patterns, user_query)
        requested_directors == RequestedPersons(director_patterns, user_query)
        movie_actors_lower == LowerAll(movie_data.actors)
        movie_directors_lower == LowerAll(movie_data.directors)
    IN  IF requested_actors # {} /\ HasNone(movie_data.actors)
        THEN "raised"
        ELSE IF \E requested_actor \in requested_actors :
                ~PersonFound(requested_actor, movie_actors_lower)
        THEN "rejected"
        ELSE IF requested_directors # {} /\ HasNone(movie_data.directors)
        THEN "raised"
        ELSE IF \E requested_director \in requested_directors :
                ~PersonFound(requested_director, movie_directors_lower)
        THEN "rejected"
        ELSE IF \/ HasNone(movie_data.genres)
                \/ HasNone(SubSeq(movie_data.actors, 1, Min(5, Len(movie_data.actors))))
                \/ HasNone(movie_data.directors)
        THEN "raised"
        ELSE IF requested_actors = {} /\ requested_directors = {}
        THEN "none_requested"
        ELSE "all_found"

\* a variant whose outer handler (lines 1272-1274) rejects the movie
validate_movie_match_fail_closed(movie_data, user_query, recommended_title, llm) ==
    IF ~movie_data.found THEN Verdict(FALSE, 0, FALSE)
    ELSE LET strict == StrictChecks(movie_data, user_query)
         IN  CASE strict = "rejected" -> Verdict(FALSE, 0, FALSE)
               [] strict = "raised" -> Verdict(FALSE, 0, FALSE)
               [] strict = "none_requested" -> AiValidation(movie_data, user_query, llm)
               [] OTHER -> Verdict(TRUE, 0, FALSE)

\* a variant that hands every found record to the yes/no generation call unless a strict
\* check rejected it, also when all named persons were found
validate_movie_match_always_asks(movie_data, user_query, recommended_title, llm) ==
    IF ~movie_data.found THEN Verdict(FALSE, 0, FALSE)
    ELSE LET strict == StrictChecks(movie_data, user_query)
         IN  CASE strict = "rejected" -> Verdict(FALSE, 0, FALSE)
               [] strict = "raised" -> Verdict(TRUE, 0, FALSE)
               [] OTHER -> AiValidation(movie_data, user_query, llm)

\* a variant in which a failed strict check is handed to the yes/no generation call
validate_movie_match_llm_overrules(movie_data, user_query, recommended_title, llm) ==
    IF ~movie_data.found THEN Verdict(FALSE, 0, FALSE)
    ELSE IF StrictChecks(movie_data, user_query) = "all_found" THEN Verdict(TRUE, 0, FALSE)
    ELSE AiValidation(movie_data, user_query, llm)

\* _validate_movie_match; llm is the outcome the yes/no generation call has if it is issued.
\* An exception outside the inner try is caught at line 1272 and the call returns True.
validate_movie_match(movie_data, user_query, recommended_title, llm) ==
    IF ~movie_data.found THEN Verdict(FALSE, 0, FALSE)
    ELSE LET strict == StrictChecks(movie_data, user_query)
         IN  CASE strict = "rejected" -> Verdict(FALSE, 0, FALSE)
               [] strict = "raised" -> Verdict(TRUE, 0, FALSE)
               [] strict = "none_requested" -> AiValidation(movie_data, user_query, llm)
               [] OTHER -> Verdict(TRUE, 0, FALSE)

(***************************************************************************)
(* agents/llm_generator.py and agents/translator.py                        *)
(***************************************************************************)

\* the text LLMGenerator.generate returns when all its attempts have failed (its first word)
GenerationFailedText == <<"I", "z", "v", "i", "n", "i", "t", "e", ".">>

IsNoText(text) == text = NoneText \/ text = <<>>

\* the prefix labels of _clean_llm_response that can be written in the alphabet, in the
\* order of the alternation
CleanLabels == << <<"p", "e", "r", "e", "v", "o", "d">>, <<"t", "e", "k", "s", "t">>, <<":">> >>

IsQuote(c) == c \in {"^", "'"}

\* the end of the match of  ^(label)\s*['"]?  at position 0 (case ignored), or 0
LabelPrefixEnd(t) ==
    LET Hits == { k \in 1..Len(CleanLabels) : LitAt(Lower(t), 0, CleanLabels[k]) }
    IN  IF Hits = {} THEN 0
        ELSE LET k == CHOOSE k \in Hits : \A k2 \in Hits : k <= k2
                 e == SkipSpaces(t, Len(CleanLabels[k]))
             IN  IF e < Len(t) /\ IsQuote(t[e + 1]) THEN e + 1 ELSE e

\* t[i:] matches  \s*['"]?\s*$
TailMatches(t, i) ==
    LET q == SkipSpaces(t, i)
    IN  \/ q = Len(t)
        \/ q < Len(t) /\ IsQuote(t[q + 1]) /\ SkipSpaces(t, q + 1) = Len(t)

\* re.sub of the label pattern: the label match at the start and the leftmost tail match removed
SubLabels(t) ==
    LET e == LabelPrefixEnd(t)
        i == CHOOSE i \in e..Len(t) : TailMatches(t, i) /\ \A i2 \in e..(i - 1) : ~TailMatches(t, i2)
    IN  Slice(t, e, i)

\* re.sub(r'\(.*?\)', '', text): every "(" up to the nearest ")" after it
RECURSIVE SubParens(_)
SubParens(t) ==
    IF t = <<>> THEN <<>>
    ELSE IF Head(t) = "(" /\ \E j \in 2..Len(t) : t[j] = ")"
         THEN LET j == CHOOSE j \in 2..Len(t) : t[j] = ")" /\ \A j2 \in 2..(j - 1) : t[j2] # ")"
              IN  SubParens(SubSeq(t, j + 1, Len(t)))
         ELSE <<Head(t)>> \o SubParens(Tail(t))

IsSpecificQuote(c) == c \in {"<", ">", "'"}

\* _clean_llm_response(text): the cleaning of a translated text
clean_llm_response(text) ==
    IF text = NoneText THEN <<>>
    ELSE Strip(SelectSeq(Strip(SubParens(Strip(SubLabels(Strip(text))))),
                         LAMBDA c : ~IsSpecificQuote(c)))

\* _clean_llm_response(text, for_language_detection=True): the first two-letter Latin word of
\* the lower-cased text, else the first two Latin letters in a row, else ""
clean_language_code(text) ==
    IF text = NoneText THEN <<>>
    ELSE LET t == Lower(Strip(text))
             Pairs == { i \in 0..(Len(t) - 2) : t[i + 1] \in LatinLower /\ t[i + 2] \in LatinLower }
             Words == { i \in Pairs : /\ (i = 0 \/ ~IsWordChar(t[i]))
                                      /\ (i + 2 = Len(t) \/ ~IsWordChar(t[i + 3])) }
             First(S) == CHOOSE i \in S : \A i2 \in S : i <= i2
         IN  IF Words # {} THEN Slice(t, First(Words), First(Words) + 2)
             ELSE IF Pairs # {} THEN Slice(t, First(Pairs), First(Pairs) + 2)
             ELSE <<>>

\* the number of attempts of the translation and detection calls (retries: int = 3)
retries == 3

\* str.isalpha
IsAlpha(s) == s # <<>> /\ \A i \in 1..Len(s) : IsLetter(s[i])

\* a variant of detect_language without the test of line 117: whatever the cleaning leaves
\* is returned
detect_language_unchecked(text, lang_code) ==
    IF IsNoText(text) THEN NoneText ELSE clean_language_code(lang_code)

\* detect_language(text); lang_code is the text self.llm.generate returns (generate does not
\* raise, so the first attempt decides)
detect_language(text, lang_code) ==
    IF IsNoText(text) THEN NoneText
    ELSE LET cleaned_lang_code == clean_language_code(lang_code)
         IN  IF cleaned_lang_code # <<>> /\ Len(cleaned_lang_code) = 2 /\ IsAlpha(cleaned_lang_code)
             THEN cleaned_lang_code ELSE NoneText

\* an attempt of detect_language in which self.llm.generate raises
RaisedAttempt == <<"raised">>

\* detect_language(text) with self.llm.generate behaving as attempts[k] in attempt k: an
\* attempt that raises is logged and followed by the next one (lines 123-128), the first
\* attempt that returns a text decides (lines 117-122), and after the last attempt None is
\* returned (line 130).  No exception leaves the call.
detect_language_attempts(text, attempts) ==
    LET Returned == { k \in 1..retries : attempts[k] # RaisedAttempt }
    IN  IF IsNoText(text) \/ Returned = {}
        THEN [value |-> NoneText, raised |-> FALSE, generate_calls |-> IF IsNoText(text) THEN 0 ELSE retries]
        ELSE LET k == CHOOSE k \in Returned : \A k2 \in Returned : k <= k2
             IN  [value |-> detect_language(text, attempts[k]), raised |-> FALSE, generate_calls |-> k]

\* translate_to_english / translate_to_russian(text); translations[k] is the text the k-th
\* call of self.llm.generate returns: the first one that is non-empty when cleaned, else text
translate(text, translations) ==
    LET Good == { k \in 1..retries : clean_llm_response(translations[k]) # <<>> }
    IN  IF Good = {} THEN text
        ELSE clean_llm_response(translations[CHOOSE k \in Good : \A k2 \in Good : k <= k2])

\* the number of self.llm.generate calls translate makes
TranslateCalls(translations) ==
    LET Good == { k \in 1..retries : clean_llm_response(translations[k]) # <<>> }
    IN  IF Good = {} THEN retries ELSE CHOOSE k \in Good : \A k2 \in Good : k <= k2

\* a variant of is_translation_different that compares the texts as they are
is_translation_different_exact(original_text, translated_text) ==
    IF IsNoText(original_text) \/ IsNoText(translated_text) THEN FALSE
    ELSE original_text # translated_text

is_translation_different(original_text, translated_text) ==
    IF IsNoText(original_text) \/ IsNoText(translated_text) THEN FALSE
    ELSE LET cleaned_original == Lower(clean_llm_response(original_text))
             cleaned_translated == Lower(clean_llm_response(translated_text))
         IN  /\ cleaned_original # cleaned_translated
             /\ RatioBelow(cleaned_original, cleaned_translated, 95, 100)

\* engine.py lines 262-267: the translated title is searched for only when
\* is_translation_different says so, else the title as extracted
TitleForTmdbSearch(title_ru, translated_title) ==
    IF is_translation_different(title_ru, translated_title) THEN translated_title ELSE title_ru

(***************************************************************************)
(* core/engine.py: _clean_title_for_comparison, _validate_movie_relevance  *)
(***************************************************************************)

clean_title_for_comparison(title) ==
    IF title = NoneText THEN <<>>
    ELSE Lower(JoinWords(Split(SelectSeq(title, LAMBDA c : IsWordChar(c) \/ IsSpace(c)))))

\* TMDB_FUZZY_THRESHOLD = 0.4 as a fraction
TMDB_FUZZY_THRESHOLD == <<4, 10>>

FuzzyMatch(threshold, a, b) == RatioAtLeast(a, b, threshold[1], threshold[2])

\* the comparisons of _validate_movie_relevance under a given threshold; lang_code and
\* translations are the texts the generation calls behind detect_language and
\* translate_to_russian return
RelevanceChecks(threshold, user_query, llm_suggested_title_ru, movie_details, lang_code, translations) ==
    LET cleaned_user_query == clean_title_for_comparison(user_query)
        cleaned_llm_suggested_title == clean_title_for_comparison(llm_suggested_title_ru)
        cleaned_tmdb_localized_title == clean_title_for_comparison(movie_details.title)
        cleaned_tmdb_original_title == clean_title_for_comparison(movie_details.original_title)
        tmdb_original_title_ru_translated ==
            IF /\ cleaned_tmdb_original_title # <<>>
               /\ detect_language(movie_details.original_title, lang_code) # <<"r.", "u.">>
            THEN clean_title_for_comparison(translate(movie_details.original_title, translations))
            ELSE <<>>
    IN  \/ /\ cleaned_llm_suggested_title # <<>>
           /\ \/ /\ cleaned_tmdb_localized_title # <<>>
                 /\ FuzzyMatch(threshold, cleaned_llm_suggested_title, cleaned_tmdb_localized_title)
              \/ /\ tmdb_original_title_ru_translated # <<>>
                 /\ FuzzyMatch(threshold, cleaned_llm_suggested_title, tmdb_original_title_ru_translated)
        \/ /\ Len(Split(cleaned_user_query)) > 1 /\ Len(cleaned_user_query) > 5
           /\ \/ /\ cleaned_tmdb_localized_title # <<>>
                 /\ FuzzyMatch(threshold, cleaned_user_query, cleaned_tmdb_localized_title)
              \/ /\ cleaned_tmdb_original_title # <<>>
                 /\ FuzzyMatch(threshold, cleaned_user_query, cleaned_tmdb_original_title)
              \/ /\ tmdb_original_title_ru_translated # <<>>
                 /\ FuzzyMatch(threshold, cleaned_user_query, tmdb_original_title_ru_translated)

\* a variant with a threshold of 0.6
validate_movie_relevance_stricter(user_query, llm_suggested_title_ru, movie_details, lang_code, translations) ==
    RelevanceChecks(<<6, 10>>, user_query, llm_suggested_title_ru, movie_details, lang_code, translations)

validate_movie_relevance(user_query, llm_suggested_title_ru, movie_details, lang_code, translations) ==
    RelevanceChecks(TMDB_FUZZY_THRESHOLD, user_query, llm_suggested_title_ru, movie_details,
                    lang_code, translations)

(***************************************************************************)
(* database/movies.py: the tables and the operations of MovieDatabase.     *)
(* An operation takes the store as a record db and yields the store after  *)
(* it and the value it returns.  "fails" says that the statement raises    *)
(* sqlite3.Error.  Time stamps are left out.                               *)
(***************************************************************************)

Tables == {"movies", "ratings", "history", "user_preferences"}

\* None as a row id (ids start at 1; the code tests ids with "if not")
NoId == 0

DB ==
    [movies |-> movies, ratings |-> ratings, history |-> history,
     user_preferences |-> user_preferences, sqlite_sequence |-> sqlite_sequence,
     last_insert_rowid |-> last_insert_rowid]

SetDB(db) ==
    /\ movies' = db.movies
    /\ ratings' = db.ratings
    /\ history' = db.history
    /\ user_preferences' = db.user_preferences
    /\ sqlite_sequence' = db.sqlite_sequence
    /\ last_insert_rowid' = db.last_insert_rowid

\* the rowid an INSERT into an AUTOINCREMENT table allocates
NextRowId(db, table) == db.sqlite_sequence[table] + 1

\* the allocation is recorded in sqlite_sequence, also when the statement ends in DO UPDATE
Allocate(db, table) == [db.sqlite_sequence EXCEPT ![table] = NextRowId(db, table)]

\* the columns of a movie row other than id and tmdb_id
MovieFields(movie_data) == [title |-> movie_data.title, original_title |-> movie_data.original_title]

MovieRow(id, movie_data) ==
    [id |-> id, tmdb_id |-> movie_data.tmdb_id, title |-> movie_data.title,
     original_title |-> movie_data.original_title]

\* a variant of add_movie with INSERT OR IGNORE: a second record for a provider id is dropped
add_movie_insert_or_ignore(db, movie_data, fails) ==
    IF fails THEN [db |-> db, ret |-> NoId]
    ELSE IF \E row \in db.movies : row.tmdb_id = movie_data.tmdb_id
    THEN [db |-> db, ret |-> db.last_insert_rowid]
    ELSE [db |-> [db EXCEPT !.movies = @ \cup {MovieRow(NextRowId(db, "movies"), movie_data)},
                            !.sqlite_sequence = Allocate(db, "movies"),
                            !.last_insert_rowid = NextRowId(db, "movies")],
          ret |-> NextRowId(db, "movies")]

\* add_movie: INSERT ... ON CONFLICT(tmdb_id) DO UPDATE SET every other column; returns
\* cursor.lastrowid, or None when the statement raises
add_movie(db, movie_data, fails) ==
    IF fails THEN [db |-> db, ret |-> NoId]
    ELSE IF \E row \in db.movies : row.tmdb_id = movie_data.tmdb_id
    THEN [db |-> [db EXCEPT !.movies = { IF row.tmdb_id = movie_data.tmdb_id
                                          THEN MovieRow(row.id, movie_data) ELSE row : row \in @ },
                            !.sqlite_sequence = Allocate(db, "movies")],
          ret |-> db.last_insert_rowid]
    ELSE [db |-> [db EXCEPT !.movies = @ \cup {MovieRow(NextRowId(db, "movies"), movie_data)},
                            !.sqlite_sequence = Allocate(db, "movies"),
                            !.last_insert_rowid = NextRowId(db, "movies")],
          ret |-> NextRowId(db, "movies")]

\* a variant of the lookup that answers from a snapshot taken before any row was written
\* (what a lookup separated from the upsert by an await could see)
get_movie_id_by_tmdb_id_stale(db, tmdb_id) == NoId

\* get_movie_id_by_tmdb_id: the id of the row, or None
get_movie_id_by_tmdb_id(db, tmdb_id) ==
    IF \E row \in db.movies : row.tmdb_id = tmdb_id
    THEN (CHOOSE row \in db.movies : row.tmdb_id = tmdb_id).id
    ELSE NoId

RatingRow(id, user_id, movie_id, rating) ==
    [id |-> id, user_id |-> user_id, movie_id |-> movie_id, rating |-> rating]

\* a variant of add_rating with a plain INSERT into a table without the UNIQUE constraint
add_rating_plain_insert(db, user_id, movie_id, rating, fails) ==
    IF fails THEN [db |-> db, ret |-> FALSE]
    ELSE [db |-> [db EXCEPT !.ratings = @ \cup {RatingRow(NextRowId(db, "ratings"), user_id, movie_id, rating)},
                            !.sqlite_sequence = Allocate(db, "ratings"),
                            !.last_insert_rowid = NextRowId(db, "ratings")],
          ret |-> TRUE]

\* add_rating: INSERT ... ON CONFLICT(user_id, movie_id) DO UPDATE SET rating
add_rating(db, user_id, movie_id, rating, fails) ==
    IF fails THEN [db |-> db, ret |-> FALSE]
    ELSE IF \E row \in db.ratings : row.user_id = user_id /\ row.movie_id = movie_id
    THEN [db |-> [db EXCEPT !.ratings = { IF row.user_id = user_id /\ row.movie_id = movie_id
                                           THEN RatingRow(row.id, user_id, movie_id, rating)
                                           ELSE row : row \in @ },
                            !.sqlite_sequence = Allocate(db, "ratings")],
          ret |-> TRUE]
    ELSE [db |-> [db EXCEPT !.ratings = @ \cup {RatingRow(NextRowId(db, "ratings"), user_id, movie_id, rating)},
                            !.sqlite_sequence = Allocate(db, "ratings"),
                            !.last_insert_rowid = NextRowId(db, "ratings")],
          ret |-> TRUE]

\* a variant of add_user_history that puts the new event in front of the log
add_user_history_prepends(db, user_id, movie_id, action_type, fails) ==
    IF fails THEN [db |-> db, ret |-> FALSE]
    ELSE [db |-> [db EXCEPT !.history = <<[id |-> NextRowId(db, "history"), user_id |-> user_id,
                                           movie_id |-> movie_id, action_type |-> action_type]>> \o @,
                            !.sqlite_sequence = Allocate(db, "history"),
                            !.last_insert_rowid = NextRowId(db, "history")],
          ret |-> TRUE]

\* add_user_history: a plain INSERT
add_user_history(db, user_id, movie_id, action_type, fails) ==
    IF fails THEN [db |-> db, ret |-> FALSE]
    ELSE [db |-> [db EXCEPT !.history = Append(@, [id |-> NextRowId(db, "history"), user_id |-> user_id,
                                                    movie_id |-> movie_id, action_type |-> action_type]),
                            !.sqlite_sequence = Allocate(db, "history"),
                            !.last_insert_rowid = NextRowId(db, "history")],
          ret |-> TRUE]

\* a variant of add_user_preference with a plain INSERT of the values as they are given
add_user_preference_plain_insert(db, user_id, preference_type, preference_value, fails) ==
    IF fails THEN [db |-> db, ret |-> FALSE]
    ELSE [db |-> [db EXCEPT !.user_preferences =
                                @ \cup {[id |-> NextRowId(db, "user_preferences"),
                                         user_id |-> user_id,
                                         preference_type |-> preference_type,
                                         preference_value |-> preference_value]},
                            !.sqlite_sequence = Allocate(db, "user_preferences"),
                            !.last_insert_rowid = NextRowId(db, "user_preferences")],
          ret |-> TRUE]

\* add_user_preference: INSERT OR REPLACE of the lower-cased type and value; a row with the
\* same (user_id, type, value) is deleted and the new row gets a new id
add_user_preference(db, user_id, preference_type, preference_value, fails) ==
    IF fails THEN [db |-> db, ret |-> FALSE]
    ELSE LET new == [id |-> NextRowId(db, "user_preferences"), user_id |-> user_id,
                     preference_type |-> Lower(preference_type),
                     preference_value |-> Lower(preference_value)]
             Same(row) == /\ row.user_id = new.user_id
                          /\ row.preference_type = new.preference_type
                          /\ row.preference_value = new.preference_value
         IN  [db |-> [db EXCEPT !.user_preferences = { row \in @ : ~Same(row) } \cup {new},
                                !.sqlite_sequence = Allocate(db, "user_preferences"),
                                !.last_insert_rowid = NextRowId(db, "user_preferences")],
              ret |-> TRUE]

(***************************************************************************)
(* core/engine.py: generate_recommendations.  A call runs in steps, one    *)
(* per await of the coroutine; eng[r] is the state of call r.              *)
(***************************************************************************)

ReqIds == {1, 2}

\* candidate_titles_with_years[:5]
MaxCandidates == 5

NoMovie == [tmdb_id |-> 0, title |-> <<>>, original_title |-> <<>>, release_date |-> <<>>]

NoCall == [kind |-> "none", req |-> 0, text |-> <<>>]

OutboundCall(kind, r, text) == [kind |-> kind, req |-> r, text |-> text]

\* the fixed texts of the results (their first words)
NoTitlesText == <<"Q", " ", "n", "e", " ", "s", "m", "o", "g">>
ApologyText == <<"K", " ", "s", "o", "j", "a", "l", "e", "n", "i", "w">>

\* a result: error says that the key 'error' is present, body that the keys 'llm_response'
\* and 'recommendations' are present
NoResult == [returned |-> FALSE, error |-> FALSE, body |-> FALSE, llm_response |-> <<>>,
             recommendations |-> <<>>]
NoTitlesResult == [returned |-> TRUE, error |-> TRUE, body |-> TRUE, llm_response |-> NoTitlesText,
                   recommendations |-> <<>>]
ExceptionResult == [returned |-> TRUE, error |-> TRUE, body |-> FALSE, llm_response |-> <<>>,
                    recommendations |-> <<>>]
BodyResult(llm_response, recommendations) ==
    [returned |-> TRUE, error |-> FALSE, body |-> TRUE, llm_response |-> llm_response,
     recommendations |-> recommendations]

NoSearch == [issued |-> FALSE, title_ru |-> <<>>, query |-> <<>>]

IdleRequest ==
    [pc |-> "idle", user_id |-> 0, user_query |-> <<>>, translator |-> "none",
     llm_candidate_response |-> <<>>, detected_language |-> NoneText, candidates |-> <<>>,
     idx |-> 0, title_for_tmdb_search |-> <<>>, movie_data |-> NoMovie, last_search |-> NoSearch,
     outcomes |-> <<>>, valid_recommendations |-> <<>>,
     final_recommended_movie_titles |-> <<>>, faults |-> 0, persist_log |-> <<>>,
     result |-> NoResult]

\* how the generation model behaves under a translation prompt during one call: it
\* translates, it returns its input, it returns nothing, or the generation call fails
TranslatorModes == {"proper", "echo", "empty", "failed"}

\* a rendering of a title in the other language, letter by letter
OtherLanguageChar(c) ==
    CASE c = "a" -> "e."  [] c = "b" -> "n."  [] c = "d" -> "s."
      [] c = "e." -> "a"  [] c = "n." -> "b"  [] c = "s." -> "d"
      [] OTHER -> c

OtherLanguage(text) == [i \in 1..Len(text) |-> OtherLanguageChar(text[i])]

\* the texts self.llm.generate returns to the attempts of one translation call
Translations(mode, text) ==
    LET answer == CASE mode = "proper" -> OtherLanguage(text)
                    [] mode = "echo" -> text
                    [] mode = "empty" -> <<>>
                    [] OTHER -> GenerationFailedText
    IN  [k \in 1..retries |-> answer]

\* the characters _escape_markdown_v2 puts a backslash before (the ASCII ">" is left out,
\* ">" stands for the closing guillemet here; the backquote is not a character of the texts)
escape_chars ==
    {"_", "*", "[", "]", "(", ")", "~", "#", "+", "-", ".", "=", "|", "{", "}", "!"}

RECURSIVE escape_markdown_v2(_)
escape_markdown_v2(text) ==
    IF text = <<>> THEN <<>>
    ELSE (IF Head(text) \in escape_chars THEN <<"\\", Head(text)>> ELSE <<Head(text)>>)
             \o escape_markdown_v2(Tail(text))

DigitChar(d) ==
    CASE d = 0 -> "0" [] d = 1 -> "1" [] d = 2 -> "2" [] d = 3 -> "3" [] d = 4 -> "4"
      [] d = 5 -> "5" [] d = 6 -> "6" [] d = 7 -> "7" [] d = 8 -> "8" [] d = 9 -> "9"

\* str(n) of a natural number
RECURSIVE StrOfInt(_)
StrOfInt(n) == IF n < 10 THEN <<DigitChar(n)>> ELSE StrOfInt(n \div 10) \o <<DigitChar(n % 10)>>

\* line 293: int(release_date[:4]), or 'N/A' when there is no release date
tmdb_release_year_for_display(movie_data) ==
    IF movie_data.release_date = <<>> THEN <<"N", "/", "A">>
    ELSE StrOfInt(IntOf(Slice(movie_data.release_date, 0, 4)))

\* lines 296-298: the item of the movie in the list of the final prompt
FinalTitle(movie_data) ==
    <<"*", "*">> \o escape_markdown_v2(movie_data.title) \o <<"*", "*", " ", "(">>
        \o tmdb_release_year_for_display(movie_data) \o <<")">>

\* ', '.join(final_recommended_movie_titles), the variable part of final_llm_prompt
RECURSIVE final_llm_prompt(_)
final_llm_prompt(final_recommended_movie_titles) ==
    IF final_recommended_movie_titles = <<>> THEN <<>>
    ELSE IF Len(final_recommended_movie_titles) = 1 THEN final_recommended_movie_titles[1]
    ELSE final_recommended_movie_titles[1] \o <<",", " ">>
             \o final_llm_prompt(Tail(final_recommended_movie_titles))

\* a variant of lines 299-301 in which a rejected movie is put on the list of the prompt
SkippedButListed(e, movie_data) ==
    [e EXCEPT !.outcomes = Append(@, "rejected"),
              !.final_recommended_movie_titles = Append(@, FinalTitle(movie_data))]

\* lines 299-301: a movie that is not relevant is skipped
Skipped(e, movie_data) == [e EXCEPT !.outcomes = Append(@, "rejected")]

\* lines 292-298: a relevant movie is kept and its title put on the list of the prompt
Kept(e, movie_data) ==
    [e EXCEPT !.outcomes = Append(@, "accepted"),
              !.valid_recommendations = Append(@, movie_data),
              !.final_recommended_movie_titles = Append(@, FinalTitle(movie_data))]

\* a variant of the end of the loop body that goes through all the candidates
AfterCandidateAll(e) ==
    IF e.idx < Len(e.candidates)
    THEN [e EXCEPT !.pc = "candidate", !.idx = @ + 1, !.title_for_tmdb_search = <<>>,
                   !.movie_data = NoMovie]
    ELSE IF e.valid_recommendations = <<>>
    THEN [e EXCEPT !.pc = "done", !.movie_data = NoMovie,
                   !.result = BodyResult(ApologyText, <<>>)]
    ELSE [e EXCEPT !.pc = "summarize", !.movie_data = NoMovie]

\* a variant of the end of the loop that asks for a summary also when nothing was accepted
AfterCandidateAlwaysSummarizes(e) ==
    IF e.idx < Min(MaxCandidates, Len(e.candidates))
    THEN [e EXCEPT !.pc = "candidate", !.idx = @ + 1, !.title_for_tmdb_search = <<>>,
                   !.movie_data = NoMovie]
    ELSE [e EXCEPT !.pc = "summarize", !.movie_data = NoMovie]

\* the movie of a candidate whose pass through lines 281-289 had the given fault
PersistFault(e, movie_data, fault) == [idx |-> e.idx, movie_data |-> movie_data, fault |-> fault]

\* a variant of lines 288-298 that keeps a relevant movie only when it was stored and logged
KeptOnlyWhenPersisted(e, movie_data, fault) ==
    IF fault = "none" THEN Kept(e, movie_data)
    ELSE [e EXCEPT !.outcomes = Append(@, "accepted"), !.faults = @ + 1,
                   !.persist_log = Append(@, PersistFault(e, movie_data, fault))]

\* lines 283-298: a relevant movie is kept whether add_movie gave an id or not and whatever
\* add_user_history returned (its value is not read)
KeptAfterPersistence(e, movie_data, fault) ==
    IF fault = "none" THEN Kept(e, movie_data)
    ELSE [Kept(e, movie_data) EXCEPT
              !.faults = @ + 1,
              !.persist_log = Append(@, PersistFault(e, movie_data, fault))]

\* the end of the loop body: the next candidate, or the end of the loop
AfterCandidate(e) ==
    IF e.idx < Min(MaxCandidates, Len(e.candidates))
    THEN [e EXCEPT !.pc = "candidate", !.idx = @ + 1, !.title_for_tmdb_search = <<>>,
                   !.movie_data = NoMovie]
    ELSE IF e.valid_recommendations = <<>>
    THEN [e EXCEPT !.pc = "done", !.movie_data = NoMovie,
                   !.result = BodyResult(ApologyText, <<>>)]
    ELSE [e EXCEPT !.pc = "summarize", !.movie_data = NoMovie]

title_ru(e) == e.candidates[e.idx][1]

IsRu(detected_language) == detected_language # NoneText /\ Lower(detected_language) = <<"r.", "u.">>


\* the movies of the metadata provider
Catalog ==
    { [tmdb_id |-> 10, title |-> <<"a">>, original_title |-> <<"e.">>,
       release_date |-> <<"2", "0", "1", "0", "-", "0", "4", "-", "1", "2">>],
      [tmdb_id |-> 20, title |-> <<"b">>, original_title |-> <<"n.">>,
       release_date |-> <<"2", "0", "1", "4", "-", "1", "1", "-", "0", "1">>],
      [tmdb_id |-> 30, title |-> <<"d", "!">>, original_title |-> <<"s.">>, release_date |-> <<>>] }

\* a movie of the provider that none of the generated titles names
OtherMovie ==
    [tmdb_id |-> 40, title |-> <<"x", "y">>, original_title |-> <<"u.">>,
     release_date |-> <<"2", "0", "0", "1", "-", "0", "1", "-", "0", "1">>]

\* tmdb_agent.enrich_query(query): None, the movie whose localized or original title is the
\* query, or another movie (the first hit of the provider's search)
ProviderAnswers(query) ==
    {NoMovie, OtherMovie}
        \cup { m \in Catalog : clean_title_for_comparison(query)
                                   \in {clean_title_for_comparison(m.title),
                                        clean_title_for_comparison(m.original_title)} }

\* the faults of one pass through the persistence lines 281-289: get_movie_id_by_tmdb_id
\* raises, add_movie returns None, add_user_history returns False
PersistFaults == {"none", "lookup", "add_movie", "history"}

\* the number of faults of the store during one call
MaxFaults == 1

\* the answers to the language question about the original title of a found movie
TitleLangCodes == { <<"e.", "n.">>, <<"r.", "u.">> }

\* lines 209-239: the preferences and the ratings are read (a read that raises ends the
\* call in the handler of line 334), then the language of the query is asked for
Start(r, user_id, user_query, translator, fails) ==
    /\ eng[r].pc = "idle"
    /\ IF fails
       THEN /\ eng' = [eng EXCEPT ![r] = [@ EXCEPT !.pc = "done", !.user_id = user_id,
                                                  !.user_query = user_query,
                                                  !.translator = translator, !.faults = 1,
                                                  !.result = ExceptionResult]]
            /\ UNCHANGED outbound
       ELSE /\ eng' = [eng EXCEPT ![r] = [@ EXCEPT !.pc = "detect", !.user_id = user_id,
                                                  !.user_query = user_query,
                                                  !.translator = translator]]
            /\ outbound' = OutboundCall("detect_language", r, user_query)
    /\ UNCHANGED <<pureVars, storeVars, calls, client, bot, leg>>

\* line 239 returns; line 242 asks for the candidates
DetectLanguage(r, lang_code) ==
    /\ eng[r].pc = "detect"
    /\ eng' = [eng EXCEPT ![r] = [@ EXCEPT !.pc = "generate",
                                           !.detected_language = detect_language(eng[r].user_query, lang_code)]]
    /\ outbound' = OutboundCall("generate", r, eng[r].user_query)
    /\ UNCHANGED <<pureVars, storeVars, calls, client, bot, leg>>

\* a generated text with the candidates _extract_movie_titles_from_llm_response finds in it
CandidateGeneration(llm_candidate_response) ==
    [text |-> llm_candidate_response,
     candidates |-> extract_movie_titles_from_llm_response(llm_candidate_response)]

\* a variant of lines 248-256 without the early return: an empty sequence of candidates goes
\* on to the end of the loop
GenerateCandidatesNoEarlyReturn(r, generation) ==
    /\ eng[r].pc = "generate"
    /\ LET candidate_titles_with_years == generation.candidates
           e == [eng[r] EXCEPT !.llm_candidate_response = generation.text,
                               !.candidates = candidate_titles_with_years]
       IN  eng' = [eng EXCEPT ![r] =
                      IF candidate_titles_with_years = <<>>
                      THEN AfterCandidate(e)
                      ELSE [e EXCEPT !.pc = "candidate", !.idx = 1]]
    /\ UNCHANGED <<pureVars, storeVars, calls, client, bot, outbound, leg>>

\* lines 242-261: the candidates are extracted from the generated text
GenerateCandidates(r, generation) ==
    /\ eng[r].pc = "generate"
    /\ LET candidate_titles_with_years == generation.candidates
           e == [eng[r] EXCEPT !.llm_candidate_response = generation.text,
                               !.candidates = candidate_titles_with_years]
       IN  eng' = [eng EXCEPT ![r] =
                      IF candidate_titles_with_years = <<>>
                      THEN [e EXCEPT !.pc = "done", !.result = NoTitlesResult]
                      ELSE [e EXCEPT !.pc = "candidate", !.idx = 1]]
    /\ UNCHANGED <<pureVars, storeVars, calls, client, bot, outbound, leg>>

\* lines 263-271: the title is translated when the detected language is 'ru'
Translate(r) ==
    /\ eng[r].pc = "candidate"
    /\ IsRu(eng[r].detected_language)
    /\ LET e == eng[r]
           translated_title == translate(title_ru(e), Translations(e.translator, title_ru(e)))
       IN  eng' = [eng EXCEPT ![r] =
                      [e EXCEPT !.pc = "search",
                                !.title_for_tmdb_search =
                                    TitleForTmdbSearch(title_ru(e), translated_title)]]
    /\ outbound' = OutboundCall("translate_to_english", r, title_ru(eng[r]))
    /\ UNCHANGED <<pureVars, storeVars, calls, client, bot, leg>>

\* line 275: the provider is searched, with the title as it is when no translation was made
Search(r, movie_data) ==
    /\ \/ eng[r].pc = "search"
       \/ eng[r].pc = "candidate" /\ ~IsRu(eng[r].detected_language)
    /\ LET e == eng[r]
           query == IF e.pc = "search" THEN e.title_for_tmdb_search ELSE title_ru(e)
           searched == [e EXCEPT !.title_for_tmdb_search = query,
                                 !.last_search = [issued |-> TRUE, title_ru |-> title_ru(e),
                                                  query |-> query]]
       IN  /\ movie_data \in ProviderAnswers(query)
           /\ eng' = [eng EXCEPT ![r] =
                         IF movie_data = NoMovie
                         THEN AfterCandidate([searched EXCEPT !.outcomes = Append(@, "not_found")])
                         ELSE [searched EXCEPT !.pc = "validate", !.movie_data = movie_data]]
           /\ outbound' = OutboundCall("enrich_query", r, query)
    /\ UNCHANGED <<pureVars, storeVars, calls, client, bot, leg>>


\* a variant of lines 280-290 that stores and logs the found movie before its relevance is
\* looked at
PersistedStoreAlways(db, is_relevant, logged_db) == logged_db

\* lines 280-290: the store is written inside `if is_relevant:` only
PersistedStore(db, is_relevant, logged_db) ==
    IF is_relevant THEN logged_db ELSE db

\* lines 278-304: the found movie is validated (lang_code is the answer to the language
\* question about its original title) and, when relevant, stored, logged and kept
Validate(r) ==
    /\ eng[r].pc = "validate"
    /\ \E lang_code \in TitleLangCodes, fault \in PersistFaults :
       LET e == eng[r]
           movie_data == e.movie_data
           is_relevant == validate_movie_relevance(e.user_query, title_ru(e), movie_data, lang_code,
                                                   Translations(e.translator, movie_data.original_title))
           found_id == get_movie_id_by_tmdb_id(DB, movie_data.tmdb_id)
           added == IF found_id = NoId THEN add_movie(DB, movie_data, fault = "add_movie")
                    ELSE [db |-> DB, ret |-> found_id]
           db_movie_id == added.ret
           logged == IF db_movie_id # NoId
                     THEN add_user_history(added.db, e.user_id, db_movie_id, "recommendation",
                                           fault = "history")
                     ELSE [db |-> added.db, ret |-> FALSE]
       IN  /\ fault # "none" => /\ is_relevant
                                /\ e.faults < MaxFaults
                                /\ fault = "add_movie" => found_id = NoId
                                /\ fault = "history" => db_movie_id # NoId
           /\ IF ~is_relevant
              THEN /\ eng' = [eng EXCEPT ![r] = AfterCandidate(Skipped(e, movie_data))]
                   /\ SetDB(PersistedStore(DB, is_relevant, logged.db))
              ELSE IF fault = "lookup"
              THEN /\ eng' = [eng EXCEPT ![r] = [e EXCEPT !.pc = "done", !.faults = @ + 1,
                                                         !.persist_log =
                                                             Append(@, PersistFault(e, movie_data, fault)),
                                                         !.result = ExceptionResult]]
                   /\ UNCHANGED storeVars
              ELSE /\ eng' = [eng EXCEPT ![r] =
                                 AfterCandidate(KeptAfterPersistence(e, movie_data, fault))]
                   /\ SetDB(PersistedStore(DB, is_relevant, logged.db))
           /\ outbound' = IF clean_title_for_comparison(movie_data.original_title) = <<>> THEN outbound
                          ELSE IF detect_language(movie_data.original_title, lang_code) = <<"r.", "u.">>
                          THEN OutboundCall("detect_language", r, movie_data.original_title)
                          ELSE OutboundCall("translate_to_russian", r, movie_data.original_title)
    /\ UNCHANGED <<pureVars, calls, client, bot, leg>>

\* lines 306-332: the summary is generated and the result returned
Summarize(r, final_llm_response) ==
    /\ eng[r].pc = "summarize"
    /\ eng' = [eng EXCEPT ![r] = [@ EXCEPT !.pc = "done",
                                           !.result = BodyResult(final_llm_response,
                                                               eng[r].valid_recommendations)]]
    /\ outbound' = OutboundCall("generate", r, final_llm_prompt(eng[r].final_recommended_movie_titles))
    /\ UNCHANGED <<pureVars, storeVars, calls, client, bot, leg>>

(***************************************************************************)
(* recommendation.py: _extract_movie_titles and generate_recommendations   *)
(* of the first engine, with the store of database.py.  The texts of the   *)
(* model hold no asterisks, so the patterns with ** find nothing.          *)
(***************************************************************************)

\* f"{title.strip()} ({year})" of a match m in text t
FullTitle(t, m) == Strip(m.title) \o <<" ", "(">> \o Slice(t, m.end - 5, m.end - 1) \o <<")">>

RECURSIVE AppendFullTitles(_, _, _)
AppendFullTitles(extracted_titles, t, ms) ==
    IF ms = <<>> THEN extracted_titles
    ELSE AppendFullTitles(IF InSeq(FullTitle(t, Head(ms)), extracted_titles) THEN extracted_titles
                          ELSE Append(extracted_titles, FullTitle(t, Head(ms))), t, Tail(ms))

\* the words that are no titles
StopTitles ==
    { <<"g", "o", "d">>, <<"f", "i", "l", "m">>, <<"g", "o", "d", "a">>,
      <<"t.", "h.", "i.", "s.">>, <<"t.", "h.", "a.", "t.">> }

RECURSIVE AppendSimpleTitles(_, _)
AppendSimpleTitles(extracted_titles, ms) ==
    IF ms = <<>> THEN extracted_titles
    ELSE LET title == Strip(Head(ms).title)
         IN  AppendSimpleTitles(IF Len(title) > 3 /\ Lower(title) \notin StopTitles
                                   /\ ~InSeq(title, extracted_titles)
                                THEN Append(extracted_titles, title) ELSE extracted_titles, Tail(ms))

\* title_patterns 2, 4 and 5, and simple_patterns 2 and 4
title_patterns == <<PatternQuotes, PatternGuillemets, PatternQuotes>>
simple_patterns == <<PatternSimpleQuotes, PatternSimpleGuillemets>>

RECURSIVE ExtractFullTitles(_, _, _)
ExtractFullTitles(pats, extracted_titles, t) ==
    IF pats = <<>> THEN extracted_titles
    ELSE ExtractFullTitles(Tail(pats), AppendFullTitles(extracted_titles, t, FindIter(Head(pats), t, 0)), t)

RECURSIVE ExtractSimpleTitles(_, _, _)
ExtractSimpleTitles(pats, extracted_titles, t) ==
    IF pats = <<>> THEN extracted_titles
    ELSE ExtractSimpleTitles(Tail(pats), AppendSimpleTitles(extracted_titles, FindIter(Head(pats), t, 0)), t)

\* _extract_movie_titles(llm_response); llm_titles is what the extraction by the generation
\* model yields when the patterns find nothing ([] when that call fails)
extract_movie_titles(llm_response, llm_titles) ==
    LET with_years == ExtractFullTitles(title_patterns, <<>>, llm_response)
        simple == ExtractSimpleTitles(simple_patterns, <<>>, llm_response)
    IN  IF with_years # <<>> THEN with_years
        ELSE IF simple # <<>> THEN simple
        ELSE llm_titles

\* lines 739-745 of _get_movie_details_from_tmdb: the title without its year and quotes
RECURSIVE StripChars(_, _)
StripChars(s, chars) ==
    IF s # <<>> /\ Head(s) \in chars THEN StripChars(Tail(s), chars)
    ELSE IF s # <<>> /\ s[Len(s)] \in chars THEN StripChars(SubSeq(s, 1, Len(s) - 1), chars)
    ELSE s

RECURSIVE RemoveYears(_)
RemoveYears(t) ==
    IF t = <<>> THEN <<>>
    ELSE IF YearAt(t, 0).ok THEN RemoveYears(Slice(t, YearAt(t, 0).end, Len(t)))
    ELSE <<Head(t)>> \o RemoveYears(Tail(t))

clean_title(movie_title) == StripChars(Strip(RemoveYears(movie_title)), {"'", "<", ">", "*"})


NoLegacyMovie ==
    [found |-> FALSE, tmdb_id |-> 0, title |-> <<>>, original_title |-> <<>>, actors |-> <<>>,
     directors |-> <<>>, genres |-> <<>>]

ZeroSummary ==
    [total_extracted |-> 0, excluded_already_rated |-> 0, excluded_validation_failed |-> 0,
     excluded_not_found |-> 0, included |-> 0]

\* a part of the text llm_response: the generated text, the text of the first retry, a note
TextPart(part, retry_count, mismatches) ==
    [part |-> part, retry_count |-> retry_count, mismatches |-> mismatches]

NoLegacyResult == [returned |-> FALSE, error |-> FALSE, llm_response |-> <<>>, recommendations |-> <<>>]

\* lines 587-592
LegacyErrorResult ==
    [returned |-> TRUE, error |-> TRUE, llm_response |-> <<TextPart("error", 0, 0)>>,
     recommendations |-> <<>>]

IdleLegacy ==
    [pc |-> "idle", user_id |-> 0, enriched_user_query |-> <<>>, excluded_movies |-> <<>>,
     movie_titles |-> <<>>, retry_movie_titles |-> <<>>, idx |-> 0,
     validation_summary |-> ZeroSummary, first_pass_done |-> FALSE, first_pass |-> ZeroSummary,
     excluded_movies_info |-> <<>>, detailed_recommendations |-> <<>>, retry_count |-> 0,
     retry_rounds |-> 0, llm_response |-> <<>>, faults |-> 0, result |-> NoLegacyResult,
     lookups |-> <<>>, validations |-> <<>>, retry_prompts |-> <<>>,
     use_proxy |-> FALSE, proxies |-> <<>>, requests |-> <<>>]

\* database.py, get_user_ratings joined with the titles the first engine reads from it
RECURSIVE RatedTitles(_, _)
RatedTitles(db, rows) ==
    IF rows = {} THEN <<>>
    ELSE LET row == CHOOSE r1 \in rows : \A r2 \in rows : r1.id >= r2.id
             title == (CHOOSE m \in db.movies : m.id = row.movie_id).title
         IN  <<title>> \o RatedTitles(db, rows \ {row})

get_user_ratings(db, user_id) ==
    RatedTitles(db, { row \in db.ratings : row.user_id = user_id
                                            /\ \E m \in db.movies : m.id = row.movie_id })

\* database.py, get_movie_by_tmdb_id: whether a row is found
get_movie_by_tmdb_id(db, tmdb_id) == \E row \in db.movies : row.tmdb_id = tmdb_id

\* database.py, add_movie: INSERT OR IGNORE
legacy_add_movie(db, movie) ==
    IF \E row \in db.movies : row.tmdb_id = movie.tmdb_id THEN db
    ELSE [db EXCEPT !.movies = @ \cup {MovieRow(NextRowId(db, "movies"), movie)},
                    !.sqlite_sequence = Allocate(db, "movies"),
                    !.last_insert_rowid = NextRowId(db, "movies")]

\* lines 423-429: the found movie is a variant of a rated title
is_excluded(excluded_movies, movie_details) ==
    \E k \in 1..Len(excluded_movies) :
        LET excluded == Lower(excluded_movies[k])
            movie_title == Lower(movie_details.title)
            original_title == Lower(movie_details.original_title)
        IN  \/ Contains(movie_title, excluded)
            \/ Contains(excluded, movie_title)
            \/ /\ original_title # <<>>
               /\ Contains(original_title, excluded) \/ Contains(excluded, original_title)

\* a guard of lines 456-458 that never stops issuing rounds
RetryGuardUnbounded(validation_summary, retry_count) ==
    validation_summary.included < 2 /\ validation_summary.excluded_validation_failed > 0

\* a guard of lines 456-458 that also retries when titles were merely not found
RetryGuardNotFound(validation_summary, retry_count) ==
    /\ validation_summary.included < 2
    /\ validation_summary.excluded_validation_failed + validation_summary.excluded_not_found > 0
    /\ retry_count < 2

max_retries == 2

\* lines 456-458: the condition of the while loop
RetryGuard(validation_summary, retry_count) ==
    /\ validation_summary.included < 2
    /\ validation_summary.excluded_validation_failed > 0
    /\ retry_count < max_retries

\* a text of lines 545-550 that carries no note
FinalTextBare(llm_response, validation_summary, retry_count) == llm_response

\* lines 545-550: the note appended to the text
FinalText(llm_response, validation_summary, retry_count) ==
    IF validation_summary.included < 2 /\ validation_summary.excluded_validation_failed > 0
    THEN Append(llm_response, TextPart("note_insufficient", retry_count,
                                       validation_summary.excluded_validation_failed))
    ELSE IF retry_count > 0 /\ validation_summary.included >= 2
    THEN Append(llm_response, TextPart("note_improved", retry_count, 0))
    ELSE llm_response

\* lines 541-556: the result after the loop
Finished(l) ==
    [l EXCEPT !.pc = "done",
              !.result = [returned |-> TRUE, error |-> FALSE,
                          llm_response |-> FinalText(l.llm_response, l.validation_summary, l.retry_count),
                          recommendations |-> l.detailed_recommendations]]

\* the handler of line 558
Failed(l) == [l EXCEPT !.pc = "done", !.faults = @ + 1, !.result = LegacyErrorResult]

\* line 456: another round, or the result
Continue(l) ==
    IF RetryGuard(l.validation_summary, l.retry_count) THEN [l EXCEPT !.pc = "retry"]
    ELSE Finished(l)

\* the end of the first pass: the loop of line 456 is reached
FirstPassDone(l) == Continue([l EXCEPT !.first_pass_done = TRUE, !.first_pass = l.validation_summary])

AfterFirstPassTitle(l) ==
    IF l.idx < Len(l.movie_titles) THEN [l EXCEPT !.idx = @ + 1] ELSE FirstPassDone(l)

\* lines 533-535: the end of the for loop of a retry round
RetryPassDone(l) ==
    Continue([l EXCEPT !.llm_response = IF l.retry_count = 1
                                        THEN Append(@, TextPart("retry_response", 0, 0)) ELSE @])

AfterRetryPassTitle(l) ==
    IF l.idx < Len(l.retry_movie_titles) THEN [l EXCEPT !.idx = @ + 1] ELSE RetryPassDone(l)

ExcludedInfo(title, reason, retry) == [title |-> title, reason |-> reason, retry |-> retry]

\* a call of _get_movie_details_from_tmdb or of _validate_movie_match for an extracted
\* title, with the round it is made in (0 is the first pass)
TitleCall(title, round) == [title |-> title, round |-> round]

\* the call of _get_movie_details_from_tmdb(title) is recorded
LookedUp(l, title) == [l EXCEPT !.lookups = Append(@, TitleCall(title, l.retry_count))]

\* the call of _validate_movie_match(movie_details, enriched_user_query, title) is recorded
ValidationCalled(l, title) == [l EXCEPT !.validations = Append(@, TitleCall(title, l.retry_count))]

\* line 465: the entries of excluded_movies_info the retry prompt names
\* (excluded_movies_info[-5:])
excluded_list(excluded_movies_info) ==
    SubSeq(excluded_movies_info, IF Len(excluded_movies_info) > 5 THEN Len(excluded_movies_info) - 4 ELSE 1,
           Len(excluded_movies_info))

\* a variant of lines 529-531 without the break
EarlyStopNever(validation_summary) == FALSE

\* lines 529-531: the round ends when 3 movies are included
EarlyStop(validation_summary) == validation_summary.included >= 3


(***************************************************************************)
(* agents/llm_generator.py and agents/tmdb_agent.py: the retry loop of     *)
(* LLMGenerator.generate and of TMDBAgent._make_request.  A call runs in   *)
(* steps: one per HTTP request and one per asyncio.sleep.                  *)
(***************************************************************************)

\* the defaults of the parameters retries and delay; no caller passes another value
client_retries == 3
client_delay == 1

ClientMethods == {"generate", "_make_request"}

\* the outcomes of one attempt: a usable answer, raise_for_status raising, the request
\* failing, an answer without 'choices' (generate raises ValueError itself), another exception
AttemptOutcomes(fn) ==
    {"ok", "http_status_error", "request_error", "other"}
        \cup (IF fn = "generate" THEN {"invalid_format"} ELSE {})

NoClientResult == [returned |-> FALSE, raised |-> FALSE, value |-> "none"]

IdleClient ==
    [fn |-> "none", pc |-> "idle", attempt |-> 0, current_delay |-> 0, log |-> <<>>,
     sleeps |-> <<>>, result |-> NoClientResult]

\* what the method returns after its last failed attempt: generate the apology text
\* (GenerationFailedText), _make_request None
Exhausted(fn) ==
    [returned |-> TRUE, raised |-> FALSE,
     value |-> IF fn = "generate" THEN "failure_text" ELSE "None"]

Answer(fn) ==
    [returned |-> TRUE, raised |-> FALSE, value |-> IF fn = "generate" THEN "content" ELSE "json"]

\* a variant of the end of the loop body that sleeps after the last attempt as well
AfterFailureAlwaysSleeps(c) ==
    [c EXCEPT !.pc = IF c.attempt < client_retries THEN "sleep" ELSE "done",
              !.result = IF c.attempt < client_retries THEN @ ELSE Exhausted(c.fn)]

\* the end of the loop body after a caught exception: a sleep when an attempt is left, else
\* the loop ends and the failure value is returned
AfterFailure(c) ==
    IF c.attempt < client_retries - 1
    THEN [c EXCEPT !.pc = "sleep"]
    ELSE [c EXCEPT !.pc = "done", !.result = Exhausted(c.fn)]

\* the call: current_delay = delay, attempt 0 is about to be made
CallClient(fn) ==
    /\ client.pc = "idle"
    /\ client' = [IdleClient EXCEPT !.fn = fn, !.pc = "attempt", !.current_delay = client_delay]
    /\ UNCHANGED <<pureVars, storeVars, calls, eng, outbound, leg, bot>>

\* one attempt: the request is sent; the answer is returned or the exception is caught
Attempt(outcome) ==
    /\ client.pc = "attempt"
    /\ outcome \in AttemptOutcomes(client.fn)
    /\ LET c == [client EXCEPT !.log = Append(@, outcome)]
       IN  client' = IF outcome = "ok"
                     THEN [c EXCEPT !.pc = "done", !.result = Answer(c.fn)]
                     ELSE AfterFailure(c)
    /\ UNCHANGED <<pureVars, storeVars, calls, eng, outbound, leg, bot>>

\* await asyncio.sleep(current_delay); current_delay *= 2; the next attempt
Sleep ==
    /\ client.pc = "sleep"
    /\ client' = [client EXCEPT !.pc = "attempt", !.attempt = @ + 1,
                                !.sleeps = Append(@, client.current_delay),
                                !.current_delay = 2 * @]
    /\ UNCHANGED <<pureVars, storeVars, calls, eng, outbound, leg, bot>>

(***************************************************************************)
(* Idle values of the parts a specification does not exercise              *)
(***************************************************************************)

PureIdle == args = NoArgs /\ ret = NoRet

StoreEmpty ==
    /\ movies = {}
    /\ ratings = {}
    /\ history = <<>>
    /\ user_preferences = {}
    /\ sqlite_sequence = [t \in Tables |-> 0]
    /\ last_insert_rowid = 0

StoreIdle == StoreEmpty /\ calls = <<>>

EngineIdle == eng = [r \in ReqIds |-> IdleRequest] /\ outbound = NoCall

LegacyIdle == leg = IdleLegacy

ClientIdle == client = IdleClient

(***************************************************************************)
(* tg_bot: the feedback conversation (handlers.py feedback command,        *)
(* callbacks.py collect_feedback) and agents/feedback.py                   *)
(***************************************************************************)

BotUsers == { 1, 2 }

\* the default of user_data.get('last_user_query_for_feedback', ...)
NoLastQuery == "N/A (from callback)"

IdleBot ==
    [feedback |-> <<>>, replies |-> <<>>, collected |-> <<>>,
     last_user_query_for_feedback |-> [u \in BotUsers |-> NoLastQuery]]

BotIdle == bot = IdleBot

(***************************************************************************)
(* Specification SpecExtract: title extraction applied to generated lists  *)
(***************************************************************************)

MaxItems == 3

ItemTitles == { <<"a">>, <<"a", "b">> }
ItemYears == { <<"2", "0", "1", "0">>, <<"2", "0", "1", "4">> }
ItemStyles == { "guillemets", "quotes", "bare" }

Items == [title : ItemTitles, year : ItemYears, style : ItemStyles]

FormatItem(it) ==
    (CASE it.style = "guillemets" -> <<"<">> \o it.title \o <<">">>
       [] it.style = "quotes" -> <<"'">> \o it.title \o <<"'">>
       [] OTHER -> it.title)
    \o <<" ", "(">> \o it.year \o <<")">>

\* the items written one after the other, separated by ", "
RECURSIVE FormatItems(_)
FormatItems(its) ==
    IF its = <<>> THEN <<>>
    ELSE IF Len(its) = 1 THEN FormatItem(its[1])
    ELSE FormatItem(its[1]) \o <<",", " ">> \o FormatItems(Tail(its))

ItemLists == UNION { [1..n -> Items] : n \in 0..MaxItems }

InitExtract ==
    /\ args \in { [fn |-> "extract", items |-> its, text |-> FormatItems(its)] : its \in ItemLists }
    /\ ret = NoRet
    /\ StoreIdle /\ EngineIdle /\ LegacyIdle
    /\ ClientIdle /\ BotIdle

CallExtract ==
    /\ args.fn = "extract" /\ ret = NoRet
    /\ ret' = <<extract_movie_titles_from_llm_response(args.text)>>
    /\ UNCHANGED <<args, storeVars, calls, client, bot, eng, outbound, leg>>

NextExtract == CallExtract

SpecExtract == InitExtract /\ [][NextExtract]_vars

Extracted == args.fn = "extract" /\ ret # NoRet

\* the (title, year) pairs the items of the list denote, in their order
ItemPairs(its) == [i \in 1..Len(its) |-> <<its[i].title, IntOf(its[i].year)>>]

Distinct(seq) == \A i, j \in 1..Len(seq) : i # j => seq[i] # seq[j]

AllGuillemets(its) == \A i \in 1..Len(its) : its[i].style = "guillemets"

\* C3: extraction order property.  For a comma-separated list of N distinct items, each
\* written as <Title> (YYYY) in guillemets, extraction returns exactly the N (title, year)
\* pairs, in their order of appearance, and nothing else.
C3_ExtractionExact ==
    (Extracted /\ AllGuillemets(args.items) /\ Distinct(ItemPairs(args.items)))
        => ret[1] = ItemPairs(args.items)

\* the case of C3: a list of two guillemet items has been extracted
C3_Witness ==
    Extracted /\ AllGuillemets(args.items) /\ Len(args.items) = 2
        /\ Distinct(ItemPairs(args.items))

\* the 1-based position of the first element of seq equal to x, 0 when there is none
FirstIndexOf(seq, x) ==
    IF InSeq(x, seq) THEN CHOOSE i \in 1..Len(seq) : seq[i] = x /\ \A j \in 1..(i - 1) : seq[j] # x
    ELSE 0

\* an item in double quotes stands before an item in guillemets
QuotesBeforeGuillemets(its) ==
    \E i, j \in 1..Len(its) : i < j /\ its[i].style = "quotes" /\ its[j].style = "guillemets"

\* the pairs of the items are all extracted, and a pair whose item stands earlier in the text
\* stands earlier in the extracted sequence
InOrderOfAppearance(extracted, its) ==
    LET pairs == ItemPairs(its)
    IN  /\ \A i \in 1..Len(pairs) : InSeq(pairs[i], extracted)
        /\ \A i, j \in 1..Len(pairs) :
               i < j => FirstIndexOf(extracted, pairs[i]) < FirstIndexOf(extracted, pairs[j])

\* C29: extraction order across quoting styles.  For a generated list that mixes quoting
\* conventions, an item in double quotes standing before an item in guillemets, the
\* extracted sequence lists the (title, year) pairs of the items in the order of their first
\* appearance in the text, and it holds no two equal pairs.
C29_ExtractionOrder ==
    (Extracted /\ QuotesBeforeGuillemets(args.items) /\ Distinct(ItemPairs(args.items)))
        => (InOrderOfAppearance(ret[1], args.items) /\ Distinct(ret[1]))

\* the case of C29: 'a' (2010), <ab> (2014) has been extracted, and the pair of the guillemet
\* item stands before the pair of the quoted item
C29_Witness ==
    /\ Extracted
    /\ args.items = <<[title |-> <<"a">>, year |-> <<"2", "0", "1", "0">>, style |-> "quotes"],
                      [title |-> <<"a", "b">>, year |-> <<"2", "0", "1", "4">>,
                       style |-> "guillemets"]>>
    /\ Distinct(ret[1])
    /\ FirstIndexOf(ret[1], <<<<"a", "b">>, 2014>>) = 1
    /\ FirstIndexOf(ret[1], <<<<"a">>, 2010>>) = 2

(***************************************************************************)
(* Specification SpecValidate: _validate_movie_match applied to a query    *)
(* and a movie record                                                      *)
(***************************************************************************)

Q_kino == <<"k", "i", "n", "o">>
Q_Tomom == W_Tom \o <<"o", "m">>
Q_tomom == Lower(Q_Tomom)
Q_Hxnksom == W_Hxnks \o <<"o", "m">>
Q_Brxda == W_Brxd \o <<"a">>
Q_Pitta == W_Pitt \o <<"a">>
N_TomHxnks == W_Tom \o <<" ">> \o W_Hxnks
N_TomasHxnks == W_Tom \o <<"a", "s", " ">> \o W_Hxnks
N_BrxdPitt == W_Brxd \o <<" ">> \o W_Pitt

QueryIntros ==
    { W_s, W_akter \o <<"o", "m">>, W_ucastie \o <<"m">>, W_ot, W_rejissera, Q_kino }
QueryNames ==
    { <<Q_Tomom, Q_Hxnksom>>, <<Q_tomom, Q_Hxnksom>>, <<Q_Brxda, Q_Pitta>>, <<Q_Brxda, Q_Hxnksom>> }
QueryGenres == { <<>>, <<G_boevik>> }

\* a query: an optional genre word, a clause "intro First Last", an optional second clause
QueryClauses ==
    { <<>> } \cup { <<i>> \o n : i \in QueryIntros, n \in QueryNames }
QuerySecondClauses == { <<>>, <<W_s, Q_Brxda, Q_Pitta>>, <<W_ot, Q_Brxda, Q_Pitta>> }
Queries ==
    { JoinWords(g \o c1 \o c2) : g \in QueryGenres, c1 \in QueryClauses, c2 \in QuerySecondClauses }

Casts == { <<>>, <<N_BrxdPitt>>, <<N_BrxdPitt, N_TomHxnks>>, <<N_TomasHxnks>>, <<W_Tom>> }
Crews == { <<>>, <<N_BrxdPitt>> }
GenreLists == { <<Title(G_boevik)>>, <<Title(G_komediq)>> }
MovieTitles == { <<"a">>, <<"a", "b">> }

\* records with a genre that is no string
MalformedRecords ==
    [found : {TRUE}, title : {<<"a">>}, actors : {<<>>, <<N_BrxdPitt>>}, directors : {<<>>},
     genres : {<<NoneText>>}]

MovieRecords ==
    { NoMovieData } \cup MalformedRecords \cup
    [found : {TRUE}, title : MovieTitles, actors : Casts, directors : Crews, genres : GenreLists]

InitValidate ==
    /\ args \in [fn : {"validate"}, movie_data : MovieRecords, user_query : Queries,
                 recommended_title : {<<"a">>}]
    /\ ret = NoRet
    /\ StoreIdle /\ EngineIdle /\ LegacyIdle
    /\ ClientIdle /\ BotIdle

CallValidate ==
    /\ args.fn = "validate" /\ ret = NoRet
    /\ \E llm \in LlmOutcomes :
         ret' = <<[llm |-> llm,
                   verdict |-> validate_movie_match(args.movie_data, args.user_query,
                                                    args.recommended_title, llm)]>>
    /\ UNCHANGED <<args, storeVars, calls, client, bot, eng, outbound, leg>>

NextValidate == CallValidate

SpecValidate == InitValidate /\ [][NextValidate]_vars

Validated == args.fn = "validate" /\ ret # NoRet

\* the query names an actor with one of the object-case patterns and the cast list of the
\* record holds no match for one of the named actors
NamedActorMissing ==
    \E requested_actor \in RequestedPersons(actor_patterns, args.user_query) :
        ~PersonFound(requested_actor, LowerAll(args.movie_data.actors))

\* C1: validator hard constraint.  When the query names an actor with an object-case pattern
\* and the cast list of the candidate holds no match for that actor (no substring match, no
\* first/last-name pair match), _validate_movie_match returns false, whatever the titles
\* are, and the yes/no generation call is not issued, whatever it would have answered.
C1_HardPersonConstraint ==
    (Validated /\ NamedActorMissing)
        => (ret[1].verdict.result = FALSE /\ ret[1].verdict.llm_calls = 0)

\* the case of C1: "s Tomom Hxnksom" asked, a record with the same title as recommended and a
\* cast without the actor, and a generation call that would have said yes
C1_Witness ==
    /\ Validated /\ NamedActorMissing
    /\ args.movie_data.found
    /\ args.movie_data.title = args.recommended_title
    /\ args.movie_data.actors = <<N_BrxdPitt>>
    /\ args.user_query = JoinWords(<<W_s, Q_Tomom, Q_Hxnksom>>)
    /\ ret[1].llm = LlmAnswer(<<"D", "a">>)

\* an exception occurred inside the call: the yes/no generation call was issued and raised,
\* or a statement outside the inner try raised
GenerationRaised == ret[1].verdict.llm_calls = 1 /\ ret[1].llm.raises
BodyRaised == args.movie_data.found /\ StrictChecks(args.movie_data, args.user_query) = "raised"

NamesSomebody ==
    \/ RequestedPersons(actor_patterns, args.user_query) # {}
    \/ RequestedPersons(director_patterns, args.user_query) # {}

\* every named actor is matched in the cast list and every named director in the crew list
EveryNamedPersonMatched ==
    /\ \A requested_actor \in RequestedPersons(actor_patterns, args.user_query) :
           PersonFound(requested_actor, LowerAll(args.movie_data.actors))
    /\ \A requested_director \in RequestedPersons(director_patterns, args.user_query) :
           PersonFound(requested_director, LowerAll(args.movie_data.directors))

\* C28: person match alone accepts.  When the query names at least one person and every
\* named person is matched in the cast or crew list of the found candidate,
\* _validate_movie_match returns true and the yes/no generation call is not issued, whatever
\* it would have answered, whatever the title of the record and whatever its genres are.
C28_PersonMatchAccepts ==
    (Validated /\ args.movie_data.found /\ NamesSomebody /\ EveryNamedPersonMatched)
        => (ret[1].verdict.result = TRUE /\ ret[1].verdict.llm_calls = 0)

\* the case of C28: "boevik s Tomom Hxnksom" asked, a comedy with another title than the
\* recommended one and the actor in its cast, and a generation call that would have said no
C28_Witness ==
    /\ Validated /\ NamesSomebody /\ EveryNamedPersonMatched
    /\ args.movie_data.found
    /\ args.movie_data.title # args.recommended_title
    /\ args.movie_data.actors = <<N_BrxdPitt, N_TomHxnks>>
    /\ args.movie_data.genres = <<Title(G_komediq)>>
    /\ args.user_query = JoinWords(<<G_boevik, W_s, Q_Tomom, Q_Hxnksom>>)
    /\ ret[1].llm = LlmAnswer(<<"N", "e", "t">>)
    /\ ret[1].verdict.result = TRUE

(***************************************************************************)
(* Specification SpecRelevance: _validate_movie_relevance applied to a     *)
(* query, a suggested title and a movie record                             *)
(***************************************************************************)

RelevanceQueries == { Q_kino, <<"a", "b", " ", "k", "i", "n", "o">> }
SuggestedTitles == { <<"a", "b">>, <<"A", "b", "!">>, <<"a", " ", " ", "b", "d">>, <<"!">>, <<>> }
LocalizedTitles ==
    { <<"a", "b">>, <<"a", "x", "y">>, <<"a", "x", "y", "z">>, <<"A", ":", " ", "b", "d">>,
      <<"x", "y">>, <<".">>, <<>>, NoneText }
OriginalTitles == { <<>>, <<"e.", "n.">>, <<"a", "b">> }
LangCodes == { <<"r.", "u.">>, <<"e.", "n.">>, GenerationFailedText }
TranslationRuns ==
    { <<<<>>, <<>>, <<>>>>,
      <<<<"<", "a", "b", ">">>, <<>>, <<>>>>,
      <<<<>>, <<>>, <<"x", "y">>>>,
      <<GenerationFailedText, GenerationFailedText, GenerationFailedText>> }

InitRelevance ==
    /\ args \in [fn : {"relevance"}, user_query : RelevanceQueries,
                 llm_suggested_title_ru : SuggestedTitles,
                 movie_details : [title : LocalizedTitles, original_title : OriginalTitles]]
    /\ ret = NoRet
    /\ StoreIdle /\ EngineIdle /\ LegacyIdle
    /\ ClientIdle /\ BotIdle

CallRelevance ==
    /\ args.fn = "relevance" /\ ret = NoRet
    /\ \E lang_code \in LangCodes, translations \in TranslationRuns :
         ret' = <<[lang_code |-> lang_code, translations |-> translations,
                   result |-> validate_movie_relevance(args.user_query, args.llm_suggested_title_ru,
                                                       args.movie_details, lang_code, translations)]>>
    /\ UNCHANGED <<args, storeVars, calls, client, bot, eng, outbound, leg>>

NextRelevance == CallRelevance

SpecRelevance == InitRelevance /\ [][NextRelevance]_vars

RelevanceChecked == args.fn = "relevance" /\ ret # NoRet

\* the cleaned localized title of the record is non-empty and its ratio to the cleaned
\* suggested title is at least 0.4
LocalizedTitleClose ==
    /\ clean_title_for_comparison(args.movie_details.title) # <<>>
    /\ RatioAtLeast(clean_title_for_comparison(args.llm_suggested_title_ru),
                    clean_title_for_comparison(args.movie_details.title), 4, 10)

\* C2: validator fuzzy threshold.  When the cleaned, non-empty localized title of the
\* candidate has a similarity ratio of at least 0.4 to the cleaned suggested title,
\* _validate_movie_relevance returns true, whatever the user query, the original title and
\* the answers of the language helper are.
C2_FuzzyThreshold ==
    (RelevanceChecked /\ LocalizedTitleClose) => ret[1].result = TRUE

\* the case of C2: a ratio of exactly 0.4 ("ab" against "axy"), a one-word query and no
\* original title
C2_Witness ==
    /\ RelevanceChecked /\ LocalizedTitleClose
    /\ args.llm_suggested_title_ru = <<"A", "b", "!">>
    /\ args.movie_details.title = <<"a", "x", "y">>
    /\ args.movie_details.original_title = <<>>
    /\ args.user_query = Q_kino
    /\ ret[1].result = TRUE

(***************************************************************************)
(* Specification SpecStore: sequences of calls of the store operations     *)
(***************************************************************************)

MaxCalls == 3

StoreTmdbIds == {10, 20}
StoreTitles == { <<"a">>, <<"b">> }
StoreMovieData == [tmdb_id : StoreTmdbIds, title : StoreTitles, original_title : {<<"e.">>}]
StoreUsers == {1, 2}
StoreMovieIds == {1, 2}
StoreRatings == {3, 9}
StorePreferenceValues == { <<"D", "r", "a", "m", "a">>, <<"d", "r", "a", "m", "a">> }
W_genre == <<"g.", "e.", "n.", "r.", "e.">>

InitStore ==
    /\ StoreEmpty /\ calls = <<>>
    /\ PureIdle /\ EngineIdle /\ LegacyIdle
    /\ ClientIdle /\ BotIdle

CallAddMovie ==
    /\ Len(calls) < MaxCalls
    /\ \E movie_data \in StoreMovieData, fails \in BOOLEAN :
         LET r == add_movie(DB, movie_data, fails)
         IN  /\ SetDB(r.db)
             /\ calls' = Append(calls, [fn |-> "add_movie", key |-> <<movie_data.tmdb_id>>,
                                        value |-> <<MovieFields(movie_data)>>, fails |-> fails,
                                        ret |-> <<r.ret>>])
    /\ UNCHANGED <<pureVars, client, bot, eng, outbound, leg>>

CallAddRating ==
    /\ Len(calls) < MaxCalls
    /\ \E user_id \in StoreUsers, movie_id \in StoreMovieIds, rating \in StoreRatings, fails \in BOOLEAN :
         LET r == add_rating(DB, user_id, movie_id, rating, fails)
         IN  /\ SetDB(r.db)
             /\ calls' = Append(calls, [fn |-> "add_rating", key |-> <<user_id, movie_id>>,
                                        value |-> <<rating>>, fails |-> fails, ret |-> <<r.ret>>])
    /\ UNCHANGED <<pureVars, client, bot, eng, outbound, leg>>

CallAddUserHistory ==
    /\ Len(calls) < MaxCalls
    /\ \E user_id \in {1}, movie_id \in {1}, fails \in BOOLEAN :
         LET r == add_user_history(DB, user_id, movie_id, "recommendation", fails)
         IN  /\ SetDB(r.db)
             /\ calls' = Append(calls, [fn |-> "add_user_history", key |-> <<user_id, movie_id>>,
                                        value |-> <<"recommendation">>, fails |-> fails,
                                        ret |-> <<r.ret>>])
    /\ UNCHANGED <<pureVars, client, bot, eng, outbound, leg>>

CallAddUserPreference ==
    /\ Len(calls) < MaxCalls
    /\ \E preference_value \in StorePreferenceValues, fails \in BOOLEAN :
         LET r == add_user_preference(DB, 1, W_genre, preference_value, fails)
         IN  /\ SetDB(r.db)
             /\ calls' = Append(calls, [fn |-> "add_user_preference", key |-> <<1>>,
                                        value |-> <<preference_value>>, fails |-> fails,
                                        ret |-> <<r.ret>>])
    /\ UNCHANGED <<pureVars, client, bot, eng, outbound, leg>>

NextStore == CallAddMovie \/ CallAddRating \/ CallAddUserHistory \/ CallAddUserPreference

SpecStore == InitStore /\ [][NextStore]_vars

\* the calls of operation fn with the given key that the store carried out, in their order
CarriedOut(fn, key) ==
    SelectSeq(calls, LAMBDA c : c.fn = fn /\ c.key = key /\ ~c.fails)

Last(seq) == seq[Len(seq)]

\* C9: upsert idempotence.  After any sequence of add_movie calls the store holds at most one
\* movie row per provider id, and the columns of that row other than the ids are those of the
\* most recent add_movie call for that provider id (a call whose statement raised has left
\* the store as it was).
C9_UpsertIdempotent ==
    \A tmdb_id \in StoreTmdbIds :
        LET Rows == { row \in movies : row.tmdb_id = tmdb_id }
            done == CarriedOut("add_movie", <<tmdb_id>>)
        IN  /\ Cardinality(Rows) <= 1
            /\ (Rows # {}) <=> (done # <<>>)
            /\ \A row \in Rows :
                 [title |-> row.title, original_title |-> row.original_title] = Last(done).value[1]

\* the case of C9: two add_movie calls for one provider id with different titles
C9_Witness ==
    \E i, j \in 1..Len(calls) :
        /\ i < j
        /\ calls[i].fn = "add_movie" /\ calls[j].fn = "add_movie"
        /\ ~calls[i].fails /\ ~calls[j].fails
        /\ calls[i].key = calls[j].key
        /\ calls[i].value # calls[j].value

\* the internal id of the movie row that carries the provider id, NoId when there is none
RowIdOf(tmdb_id) ==
    IF \E row \in movies : row.tmdb_id = tmdb_id
    THEN (CHOOSE row \in movies : row.tmdb_id = tmdb_id).id
    ELSE NoId

\* C39: add_movie return value.  Every add_movie call the store carried out has returned the
\* internal id of the row that carries the given provider id, both when the call inserted
\* the row and when it updated an existing row with that provider id.
C39_AddMovieReturnsRowId ==
    \A i \in 1..Len(calls) :
        (calls[i].fn = "add_movie" /\ ~calls[i].fails)
            => calls[i].ret = <<RowIdOf(calls[i].key[1])>>

\* the case of C39: a row is inserted, a row for another provider id is inserted after it,
\* and then add_movie is carried out again for the first provider id
C39_Witness ==
    /\ Len(calls) = 3
    /\ \A i \in 1..3 : calls[i].fn = "add_movie" /\ ~calls[i].fails
    /\ calls[1].key # calls[2].key
    /\ calls[3].key = calls[1].key

\* C10: rating overwrite.  After any sequence of add_rating calls there is at most one stored
\* rating per (user, movie) pair and its score is the score of the last add_rating call for
\* that pair (a call whose statement raised has left the store as it was).
C10_RatingOverwrite ==
    \A user_id \in StoreUsers, movie_id \in StoreMovieIds :
        LET Rows == { row \in ratings : row.user_id = user_id /\ row.movie_id = movie_id }
            done == CarriedOut("add_rating", <<user_id, movie_id>>)
        IN  /\ Cardinality(Rows) <= 1
            /\ (Rows # {}) <=> (done # <<>>)
            /\ \A row \in Rows : row.rating = Last(done).value[1]

\* the case of C10: one pair rated twice with different scores
C10_Witness ==
    \E i, j \in 1..Len(calls) :
        /\ i < j
        /\ calls[i].fn = "add_rating" /\ calls[j].fn = "add_rating"
        /\ ~calls[i].fails /\ ~calls[j].fails
        /\ calls[i].key = calls[j].key
        /\ calls[i].value # calls[j].value


(***************************************************************************)
(* Specification SpecCore: one call of generate_recommendations            *)
(***************************************************************************)

CoreReqs == {1}
CoreUsers == {1}
CoreQueries == { Q_kino }
Code_ru == <<"r.", "u.">>
Code_en == <<"e.", "n.">>
Code_uk == <<"u.", "k.">>
CoreLangCodes == { Code_ru, Code_uk, GenerationFailedText }
Y2010 == <<"2", "0", "1", "0">>
Y2014 == <<"2", "0", "1", "4">>
CoreItem(title, year, style) == [title |-> title, year |-> year, style |-> style]

\* the lists the generation model writes: nothing, one item, three items
CoreItemLists ==
    { <<>>,
      <<CoreItem(<<"a">>, Y2010, "guillemets")>>,
      <<CoreItem(<<"a">>, Y2010, "guillemets"), CoreItem(<<"b">>, Y2014, "guillemets"),
        CoreItem(<<"d">>, Y2010, "guillemets")>>,
      <<CoreItem(<<"a">>, Y2010, "bare"), CoreItem(<<"b">>, Y2014, "bare"),
        CoreItem(<<"d">>, Y2010, "bare")>> }

CandidateTexts == { FormatItems(its) : its \in CoreItemLists } \cup {GenerationFailedText}

CandidateGenerations == { CandidateGeneration(text) : text \in CandidateTexts }

SummaryText == <<"t", "e", "k", "s", "t">>
SummaryTexts == { SummaryText, <<>>, GenerationFailedText }

\* the store before the call holds the first movie of the catalog
StoreWithMovie ==
    /\ movies = { MovieRow(1, CHOOSE m \in Catalog : m.tmdb_id = 10) }
    /\ ratings = {}
    /\ history = <<>>
    /\ user_preferences = {}
    /\ sqlite_sequence = [t \in Tables |-> IF t = "movies" THEN 1 ELSE 0]
    /\ last_insert_rowid = 1

InitCore ==
    /\ StoreWithMovie
    /\ calls = <<>>
    /\ PureIdle /\ EngineIdle /\ LegacyIdle
    /\ ClientIdle /\ BotIdle

NextCore ==
    \E r \in CoreReqs :
        \/ \E user_id \in CoreUsers, user_query \in CoreQueries, translator \in TranslatorModes,
              fails \in BOOLEAN : Start(r, user_id, user_query, translator, fails)
        \/ \E lang_code \in CoreLangCodes : DetectLanguage(r, lang_code)
        \/ \E generation \in CandidateGenerations : GenerateCandidates(r, generation)
        \/ Translate(r)
        \/ \E movie_data \in Catalog \cup {NoMovie, OtherMovie} : Search(r, movie_data)
        \/ Validate(r)
        \/ \E text \in SummaryTexts : Summarize(r, text)

SpecCore == InitCore /\ [][NextCore]_vars


ThreeTitles ==
    <<CoreItem(<<"a">>, Y2010, "guillemets"), CoreItem(<<"b">>, Y2014, "guillemets"),
      CoreItem(<<"d">>, Y2010, "guillemets")>>

\* the call has returned after a generation of exactly the three titles in the instructed
\* format, each of which was found and accepted, with no fault of the store
ThreeTitlesAccepted(e) ==
    /\ e.pc = "done" /\ e.result.returned
    /\ e.llm_candidate_response = FormatItems(ThreeTitles)
    /\ e.faults = 0
    /\ Len(e.outcomes) >= 3
    /\ \A i \in 1..3 : e.outcomes[i] = "accepted"

\* C4: end-to-end scenario.  When the candidate generation returns exactly 3 titles in
\* the <Title> (Year) format and each of them is found by the provider and accepted by
\* validation, generate_recommendations returns exactly 3 movie records, one per generated
\* title, together with a non-empty summary text.
C4_ThreeTitlesThreeRecords ==
    \A r \in ReqIds :
        ThreeTitlesAccepted(eng[r])
            => /\ eng[r].result.body /\ ~eng[r].result.error
               /\ Len(eng[r].result.recommendations) = 3
               /\ eng[r].result.llm_response # <<>>

\* the case of C4: such a call has returned
C4_Witness == \E r \in ReqIds : ThreeTitlesAccepted(eng[r])

\* the translation translate_to_english gives for the title of the latest search of a call
TranslatedTitle(e) == translate(e.last_search.title_ru, Translations(e.translator, e.last_search.title_ru))

\* a search was issued for a candidate while the language detected for the query is not
\* the one the titles are translated towards, and the translation of the title differs
BridgingCase(e) ==
    /\ e.last_search.issued
    /\ e.detected_language \notin {NoneText, Code_en}
    /\ is_translation_different(e.last_search.title_ru, TranslatedTitle(e))

\* C8: language bridging.  For every candidate, when the language detected for the user
\* query differs from the provider's indexing language and is_translation_different(original
\* title, translated title) is true, the provider search is issued with the translated
\* title and not with the original one.
C8_LanguageBridging ==
    \A r \in ReqIds :
        BridgingCase(eng[r])
            => /\ eng[r].last_search.query = TranslatedTitle(eng[r])
               /\ eng[r].last_search.query # eng[r].last_search.title_ru

\* the case of C8: a search was issued in the bridging case
C8_Witness == \E r \in ReqIds : BridgingCase(eng[r])


\* extraction returned an empty sequence for call r (a call that ended in the handler of
\* line 334 before the extraction has faults = 1)
EmptyExtraction(e) == e.pc = "done" /\ e.candidates = <<>> /\ e.faults = 0

\* C12: empty extraction is terminal.  When the title extraction returns an empty sequence
\* the call returns the user-facing error result at once: no provider lookup, no
\* validation, no write to the store and no further generation call is made for it (the
\* latest outbound call stays the candidate generation).
C12_EmptyExtractionTerminal ==
    \A r \in CoreReqs :
        EmptyExtraction(eng[r])
            => /\ eng[r].result = NoTitlesResult
               /\ eng[r].result.error /\ eng[r].result.recommendations = <<>>
               /\ ~eng[r].last_search.issued
               /\ eng[r].outcomes = <<>> /\ eng[r].valid_recommendations = <<>>
               /\ StoreWithMovie
               /\ outbound = OutboundCall("generate", r, eng[r].user_query)

\* the case of C12: the generation call gave its failure text, in which no title is found
C12_Witness ==
    \E r \in CoreReqs :
        /\ EmptyExtraction(eng[r])
        /\ eng[r].llm_candidate_response = GenerationFailedText
        /\ eng[r].result.returned

\* C13: result shape.  The result of generate_recommendations carries an error field only
\* when the extraction found no title; when candidates were extracted and none was accepted
\* it has no error field, an empty movie list and the apology text; in every other case it
\* carries the composed text and the accepted records.
C13_ResultShape ==
    \A r \in CoreReqs :
        LET e == eng[r]
        IN  (e.pc = "done" /\ e.result.returned)
                => /\ e.result.error <=> EmptyExtraction(e)
                   /\ (e.candidates # <<>> /\ e.valid_recommendations = <<>>)
                         => e.result = BodyResult(ApologyText, <<>>)
                   /\ (e.candidates # <<>> /\ e.valid_recommendations # <<>>)
                         => /\ e.result.body /\ ~e.result.error
                            /\ e.result.recommendations = e.valid_recommendations

\* the case of C13: a returned call whose candidates were extracted and of which one was
\* accepted before the id lookup of a later one raised
C13_Witness ==
    \E r \in CoreReqs :
        /\ eng[r].pc = "done" /\ eng[r].result.returned
        /\ eng[r].candidates # <<>> /\ eng[r].valid_recommendations # <<>>
        /\ eng[r].faults = 1 /\ eng[r].result = ExceptionResult

\* a fault of a store operation has occurred while a candidate of the call was processed
CandidateFault(e) == e.candidates # <<>> /\ e.faults > 0

\* C14: per-candidate failure isolation.  No failure inside the processing of one candidate
\* (lookup miss, validation rejection, a fault of a store operation used for it, the id
\* lookup included) aborts the batch: the call returns only after each of the first 5
\* candidates was processed, and it returns every accepted record.
C14_FailureIsolation ==
    \A r \in CoreReqs :
        LET e == eng[r]
        IN  (e.pc = "done" /\ e.result.returned /\ e.candidates # <<>>)
                => /\ Len(e.outcomes) = Min(MaxCandidates, Len(e.candidates))
                   /\ e.result.body
                   /\ e.result.recommendations = e.valid_recommendations

\* the case of C14: the call has returned after a fault of the store during a candidate
C14_Witness ==
    \E r \in CoreReqs :
        /\ eng[r].pc = "done" /\ eng[r].result.returned
        /\ CandidateFault(eng[r])
        /\ "accepted" \in { eng[r].outcomes[k] : k \in 1..Len(eng[r].outcomes) }

\* the number of candidates of the call that were accepted so far
AcceptedCount(e) == Cardinality({ k \in 1..Len(e.outcomes) : e.outcomes[k] = "accepted" })

\* the items of the given records as the final prompt lists them, in the order of the records
PromptItems(records) == [k \in 1..Len(records) |-> FinalTitle(records[k])]

\* C15: phrasing never invents movies.  The list of the final prompt holds exactly one item,
\* title and year, per accepted record, in the order of acceptance, at every point of the
\* call (so no rejected and no not-found candidate is on it); the summary generation call
\* is issued with that list and the returned movie list is the sequence of accepted records.
C15_PromptListsAccepted ==
    \A r \in CoreReqs :
        LET e == eng[r]
        IN  /\ e.final_recommended_movie_titles = PromptItems(e.valid_recommendations)
            /\ Len(e.valid_recommendations) = AcceptedCount(e)
            /\ (e.pc = "done" /\ e.result.returned /\ ~e.result.error /\ e.valid_recommendations # <<>>)
                  => /\ outbound = OutboundCall("generate", r, final_llm_prompt(PromptItems(e.result.recommendations)))
                     /\ e.result.recommendations = e.valid_recommendations

\* the case of C15: a returned call with two or more accepted records, among them the movie
\* without a release date, and with a rejected and a not-found candidate
C15_Witness ==
    \E r \in CoreReqs :
        /\ eng[r].pc = "done" /\ eng[r].result.returned /\ ~eng[r].result.error
        /\ Len(eng[r].result.recommendations) >= 2
        /\ \E k \in 1..Len(eng[r].result.recommendations) : eng[r].result.recommendations[k].tmdb_id = 30
        /\ \E i, j \in 1..Len(eng[r].outcomes) :
              eng[r].outcomes[i] = "rejected" /\ eng[r].outcomes[j] = "not_found"
        /\ outbound.kind = "generate" /\ outbound.text # <<>>

\* C25: translation failure falls back to the original.  When every generation call behind
\* translate_to_english of a call has failed terminally, the provider search for a
\* candidate is issued with the title as extracted.
C25_TranslationFailureFallback ==
    \A r \in ReqIds :
        (eng[r].last_search.issued /\ eng[r].translator = "failed")
            => eng[r].last_search.query = eng[r].last_search.title_ru

\* the case of C25: the query is Russian, the generation calls of the translation have
\* failed, and the provider was searched with the failure text of the generation client
C25_Witness ==
    \E r \in ReqIds :
        /\ eng[r].last_search.issued /\ eng[r].translator = "failed"
        /\ IsRu(eng[r].detected_language)
        /\ eng[r].last_search.query = GenerationFailedText
        /\ outbound = OutboundCall("enrich_query", r, GenerationFailedText)

\* C27: no duplicate recommendations.  In the result of a call no two records have the
\* same provider id, and the log holds at most one event of the call per movie.
C27_NoDuplicateRecommendations ==
    \A r \in ReqIds :
        (eng[r].pc = "done" /\ eng[r].result.returned)
            => /\ \A j, k \in 1..Len(eng[r].result.recommendations) :
                     eng[r].result.recommendations[j].tmdb_id = eng[r].result.recommendations[k].tmdb_id
                        => j = k
               /\ \A j, k \in 1..Len(history) :
                     (history[j].user_id = eng[r].user_id /\ history[k].user_id = eng[r].user_id
                         /\ history[j].movie_id = history[k].movie_id) => j = k

\* the case of C27: a call has returned two records with the same provider id and has
\* written two events for that movie
C27_Witness ==
    \E r \in ReqIds :
        /\ eng[r].pc = "done" /\ eng[r].result.returned /\ eng[r].faults = 0
        /\ \E j, k \in 1..Len(eng[r].result.recommendations) :
              /\ j < k
              /\ eng[r].result.recommendations[j].tmdb_id = eng[r].result.recommendations[k].tmdb_id
        /\ \E j, k \in 1..Len(history) :
              j < k /\ history[j].user_id = eng[r].user_id /\ history[k].user_id = eng[r].user_id
                    /\ history[j].movie_id = history[k].movie_id

\* the call has returned after candidates were extracted and each candidate of the loop was
\* not found by the provider or rejected by validation
NoneAccepted(e) ==
    /\ e.pc = "done" /\ e.result.returned
    /\ e.candidates # <<>>
    /\ Len(e.outcomes) = Min(MaxCandidates, Len(e.candidates))
    /\ \A i \in 1..Len(e.outcomes) : e.outcomes[i] \in {"not_found", "rejected"}

\* C32: empty accepted set.  When candidates were extracted and none of them is accepted,
\* generate_recommendations returns the fixed apology text with an empty movie list and no
\* error field, and the latest outbound call of the request is not a generation call: no
\* summary was asked for.
C32_EmptyAcceptedSet ==
    \A r \in ReqIds :
        NoneAccepted(eng[r])
            => /\ eng[r].result = BodyResult(ApologyText, <<>>)
               /\ ~(outbound.req = r /\ outbound.kind = "generate")

\* the case of C32: three candidates, one not found and one rejected among them, and the
\* call has returned
C32_Witness ==
    \E r \in ReqIds :
        /\ NoneAccepted(eng[r])
        /\ Len(eng[r].outcomes) >= 3
        /\ \E i, j \in 1..Len(eng[r].outcomes) :
               eng[r].outcomes[i] = "not_found" /\ eng[r].outcomes[j] = "rejected"

\* the call has returned, the store failed for a relevant movie in add_movie or in
\* add_user_history, and nothing raised during the call
DegradedPersistence(e) ==
    /\ e.pc = "done" /\ e.result.returned
    /\ e.persist_log # <<>>
    /\ \A i \in 1..Len(e.persist_log) : e.persist_log[i].fault \in {"add_movie", "history"}

\* C33: degraded persistence.  If add_movie returns no id or add_user_history returns false
\* for an accepted candidate, the movie of that candidate is in the returned movie list, the
\* candidates after it are processed as well (each of the first five has its outcome) and
\* the result has no error field.
C33_DegradedPersistence ==
    \A r \in ReqIds :
        DegradedPersistence(eng[r])
            => /\ \A i \in 1..Len(eng[r].persist_log) :
                      InSeq(eng[r].persist_log[i].movie_data, eng[r].result.recommendations)
               /\ Len(eng[r].outcomes) = Min(MaxCandidates, Len(eng[r].candidates))
               /\ eng[r].result.body /\ ~eng[r].result.error

\* the case of C33: add_movie gave no id for a candidate, the candidate after it was
\* accepted and logged, and the call has returned
C33_Witness ==
    \E r \in ReqIds :
        /\ DegradedPersistence(eng[r])
        /\ eng[r].persist_log[1].fault = "add_movie"
        /\ eng[r].persist_log[1].idx < Len(eng[r].outcomes)
        /\ eng[r].outcomes[eng[r].persist_log[1].idx + 1] = "accepted"
        /\ Len(eng[r].result.recommendations) >= 2
        /\ Len(history) >= 1

\* the step of call r that ends the processing of a candidate with the given outcome
CandidateStep(r, outcome) ==
    /\ eng[r].pc \in {"candidate", "search", "validate"}
    /\ eng'[r].outcomes = Append(eng[r].outcomes, outcome)

\* the rows a step adds to table movies carry the provider id of the given movie, and the
\* rows it adds to table history are recommendation events of the given user
WritesOnlyFor(user_id, movie_data) ==
    /\ \A row \in movies' \ movies : row.tmdb_id = movie_data.tmdb_id
    /\ Len(history') \in {Len(history), Len(history) + 1}
    /\ SubSeq(history', 1, Len(history)) = history
    /\ Len(history') > Len(history)
           => /\ history'[Len(history')].user_id = user_id
              /\ history'[Len(history')].action_type = "recommendation"
              /\ \E row \in movies' : /\ row.id = history'[Len(history')].movie_id
                                      /\ row.tmdb_id = movie_data.tmdb_id
    /\ ratings' = ratings /\ user_preferences' = user_preferences

\* C34: persist only validated.  A step of generate_recommendations changes the store only
\* when it is the step of a candidate that the provider found and validation accepted, and
\* then it writes a movie row of that movie and a history event of the user for it only; the
\* step of a candidate that was not found or was rejected leaves the store unchanged.
C34_PersistOnlyValidated ==
    [][ /\ storeVars' # storeVars
            => \E r \in ReqIds :
                   /\ CandidateStep(r, "accepted")
                   /\ eng[r].pc = "validate" /\ eng[r].movie_data # NoMovie
                   /\ WritesOnlyFor(eng[r].user_id, eng[r].movie_data)
        /\ \A r \in ReqIds :
               (CandidateStep(r, "rejected") \/ CandidateStep(r, "not_found"))
                   => storeVars' = storeVars ]_vars

\* the case of C34: a call has returned with a candidate not found, a candidate rejected
\* and a candidate accepted, and the store holds one history event
C34_Witness ==
    \E r \in ReqIds :
        /\ eng[r].pc = "done" /\ eng[r].faults = 0
        /\ \E i, j, k \in 1..Len(eng[r].outcomes) :
               /\ eng[r].outcomes[i] = "not_found"
               /\ eng[r].outcomes[j] = "rejected"
               /\ eng[r].outcomes[k] = "accepted"
        /\ Len(history) = 1

\* the call is inside the loop over the candidates
InLoop(e) == e.pc \in {"candidate", "search", "validate"}

\* C35: first five only.  The candidate a call works on is one of the first 5 extracted
\* candidates; while it works on candidate i, the candidates before i have their outcomes and
\* no later one has, so the lookups follow the extraction order one at a time; the movie
\* being validated was searched with the title of candidate i; at most 5 candidates get an
\* outcome and at most 5 records are kept and returned.
C35_FirstFiveOnly ==
    \A r \in ReqIds :
        LET e == eng[r]
        IN  /\ e.idx <= MaxCandidates /\ e.idx <= Len(e.candidates)
            /\ Len(e.outcomes) <= MaxCandidates
            /\ InLoop(e) => (e.idx >= 1 /\ Len(e.outcomes) = e.idx - 1)
            /\ (e.pc = "validate")
                   => (e.last_search.issued /\ e.last_search.title_ru = e.candidates[e.idx][1])
            /\ Len(e.valid_recommendations) <= MaxCandidates
            /\ Len(e.result.recommendations) <= MaxCandidates

\* the case of C35: six candidates were extracted, the first five were accepted and the
\* call has returned five records
C35_Witness ==
    \E r \in ReqIds :
        /\ eng[r].pc = "done"
        /\ Len(eng[r].candidates) = 6
        /\ Len(eng[r].outcomes) = 5
        /\ \A i \in 1..5 : eng[r].outcomes[i] = "accepted"
        /\ Len(eng[r].result.recommendations) = 5

(***************************************************************************)
(* Specification SpecLegacy: one call of generate_recommendations of       *)
(* recommendation.py                                                       *)
(***************************************************************************)

Bump(validation_summary, counter) == [validation_summary EXCEPT ![counter] = @ + 1]

\* the movies the provider knows to the first engine
LegacyMovie(tmdb_id, title, actors) ==
    [found |-> TRUE, tmdb_id |-> tmdb_id, title |-> title, original_title |-> <<>>,
     actors |-> actors, directors |-> <<>>, genres |-> <<Title(G_boevik)>>]

LegacyCatalog ==
    LET TomHxnks == W_Tom \o <<" ">> \o W_Hxnks
        BrxdPitt == W_Brxd \o <<" ">> \o W_Pitt
    IN  { LegacyMovie(10, <<"a">>, <<TomHxnks>>), LegacyMovie(20, <<"b">>, <<BrxdPitt>>),
          LegacyMovie(30, <<"d">>, <<TomHxnks>>), LegacyMovie(50, <<"i">>, <<TomHxnks>>),
          LegacyMovie(60, <<"k">>, <<BrxdPitt>>), LegacyMovie(70, <<"z">>, <<BrxdPitt>>) }

\* _get_movie_details_from_tmdb(movie_title): None, or the movie with the cleaned title
LegacyProviderAnswers(movie_title) ==
    {NoLegacyMovie} \cup { m \in LegacyCatalog : Lower(m.title) = Lower(clean_title(movie_title)) }

Q_sTomomHxnksom == JoinWords(<<W_s, Q_Tomom, Q_Hxnksom>>)
LegacyQueries == { Q_sTomomHxnksom, Q_kino }
LegacyUsers == {1}

LegacyItem(title) == [title |-> title, year |-> Y2010, style |-> "quotes"]

\* the lists the generation model writes in a round
LegacyItemLists ==
    { <<>>,
      <<LegacyItem(<<"b">>)>>,
      <<LegacyItem(<<"k">>)>>,
      <<LegacyItem(<<"a">>), LegacyItem(<<"b">>)>>,
      <<LegacyItem(<<"a">>), LegacyItem(<<"d">>), LegacyItem(<<"i">>)>> }

\* the lists of a call whose rounds name other movies than its first generation
FirstItemList == <<LegacyItem(<<"a">>), LegacyItem(<<"d">>), LegacyItem(<<"i">>)>>
RetryItemList == <<LegacyItem(<<"k">>), LegacyItem(<<"z">>), LegacyItem(<<"b">>)>>

\* a generated text with the titles _extract_movie_titles finds in it
Generation(llm_response, llm_titles) ==
    [text |-> llm_response, movie_titles |-> extract_movie_titles(llm_response, llm_titles)]

\* what the extraction by the generation model yields for a text without titles
LegacyLlmTitles == { <<>> }

LegacyGenerations ==
    { Generation(FormatItems(its), llm_titles) : its \in LegacyItemLists, llm_titles \in LegacyLlmTitles }

FirstGeneration == Generation(FormatItems(FirstItemList), <<>>)
RetryGeneration == Generation(FormatItems(RetryItemList), <<>>)

\* the titles the extraction yields in the model, and the answers of the provider to each
LegacyTitles ==
    UNION { SeqToSet(generation.movie_titles) : generation \in LegacyGenerations \cup {RetryGeneration} }

LegacyLookups == [movie_title \in LegacyTitles |-> LegacyProviderAnswers(movie_title)]

\* _validate_movie_match(movie_details, enriched_user_query, title) for the movies and the
\* queries of the model, by the outcome of its generation call
LegacyValidations ==
    [movie_details \in LegacyCatalog \cup {NoLegacyMovie}, user_query \in LegacyQueries, llm \in LlmOutcomes |->
        validate_movie_match(movie_details, user_query, movie_details.title, llm).result]

\* lines 189-198: the rated titles are read (a read that raises ends the call in the
\* handler of line 558); the provider adds nothing to the query
StartLegacy(user_id, user_query, fails) ==
    /\ leg.pc = "idle"
    /\ leg' = IF fails THEN Failed([leg EXCEPT !.user_id = user_id, !.enriched_user_query = user_query])
              ELSE [leg EXCEPT !.pc = "generate", !.user_id = user_id,
                               !.enriched_user_query = user_query,
                               !.excluded_movies = get_user_ratings(DB, user_id)]
    /\ UNCHANGED <<pureVars, storeVars, calls, client, bot, eng, outbound>>

\* lines 200-402: the generation (raises stands for the attempts ending in an exception)
\* and the extraction
GenerateLegacy(generation) ==
    /\ leg.pc = "generate"
    /\ \E raises \in BOOLEAN :
       leg' = IF raises THEN Failed(leg)
              ELSE LET movie_titles == generation.movie_titles
                       l == [leg EXCEPT !.movie_titles = movie_titles, !.idx = 1,
                                        !.pc = "first_pass",
                                        !.llm_response = <<TextPart("response", 0, 0)>>,
                                        !.validation_summary.total_extracted = Len(movie_titles)]
                   IN  IF movie_titles = <<>> THEN FirstPassDone(l) ELSE l
    /\ UNCHANGED <<pureVars, storeVars, calls, client, bot, eng, outbound>>

\* lines 404-450: one title of the first pass; fails says that the store raises
FirstPassTitle ==
    /\ leg.pc = "first_pass"
    /\ \E movie_details \in LegacyLookups[leg.movie_titles[leg.idx]], llm \in LlmOutcomes :
       LET title == leg.movie_titles[leg.idx]
           is_valid == LegacyValidations[movie_details, leg.enriched_user_query, llm]
           looked == LookedUp(leg, title)
           checked == ValidationCalled(looked, title)
           Counted(l, counter) == [l EXCEPT !.validation_summary = Bump(@, counter)]
       IN  \E fails \in BOOLEAN :
           /\ fails => /\ leg.faults < MaxFaults
                       /\ ~InSeq(title, leg.excluded_movies)
                       /\ movie_details.found /\ ~is_excluded(leg.excluded_movies, movie_details)
                       /\ is_valid
           /\ IF InSeq(title, leg.excluded_movies)
              THEN leg' = AfterFirstPassTitle(Counted(leg, "excluded_already_rated")) /\ UNCHANGED storeVars
              ELSE IF ~movie_details.found
              THEN /\ leg' = AfterFirstPassTitle(
                                [Counted(looked, "excluded_not_found") EXCEPT
                                    !.excluded_movies_info = Append(@, ExcludedInfo(title, "not_found", 0))])
                   /\ UNCHANGED storeVars
              ELSE IF is_excluded(leg.excluded_movies, movie_details)
              THEN leg' = AfterFirstPassTitle(Counted(looked, "excluded_already_rated")) /\ UNCHANGED storeVars
              ELSE IF ~is_valid
              THEN /\ leg' = AfterFirstPassTitle(
                                [Counted(checked, "excluded_validation_failed") EXCEPT
                                    !.excluded_movies_info =
                                        Append(@, ExcludedInfo(movie_details.title, "mismatch", 0))])
                   /\ UNCHANGED storeVars
              ELSE IF fails
              THEN leg' = Failed(checked) /\ UNCHANGED storeVars
              ELSE /\ leg' = AfterFirstPassTitle(
                                [Counted(checked, "included") EXCEPT
                                    !.detailed_recommendations = Append(@, movie_details)])
                   /\ SetDB(legacy_add_movie(DB, movie_details))
    /\ UNCHANGED <<pureVars, calls, client, bot, eng, outbound>>

\* lines 456-488: a round is issued; when the generation raises, the loop is left
RetryRound(generation) ==
    /\ leg.pc = "retry"
    /\ \E raises \in BOOLEAN :
       LET l == [leg EXCEPT !.retry_count = @ + 1, !.retry_rounds = @ + 1,
                            !.retry_prompts = Append(@, excluded_list(leg.excluded_movies_info))]
           retry_movie_titles == generation.movie_titles
       IN  leg' = IF raises THEN Finished(l)
                  ELSE IF retry_movie_titles = <<>> THEN RetryPassDone(l)
                  ELSE [l EXCEPT !.pc = "retry_pass", !.retry_movie_titles = retry_movie_titles,
                                 !.idx = 1]
    /\ UNCHANGED <<pureVars, storeVars, calls, client, bot, eng, outbound>>

\* lines 491-531: one title of a retry round
RetryPassTitle ==
    /\ leg.pc = "retry_pass"
    /\ \E movie_details \in LegacyLookups[leg.retry_movie_titles[leg.idx]], llm \in LlmOutcomes :
       LET title == leg.retry_movie_titles[leg.idx]
           already_processed ==
               \E k \in 1..Len(leg.movie_titles) : Contains(Lower(leg.movie_titles[k]), Lower(title))
           is_duplicate ==
               \E k \in 1..Len(leg.detailed_recommendations) :
                   Lower(leg.detailed_recommendations[k].title) = Lower(movie_details.title)
           is_valid == LegacyValidations[movie_details, leg.enriched_user_query, llm]
           looked == LookedUp(leg, title)
           checked == ValidationCalled(looked, title)
           added == [checked EXCEPT !.validation_summary = Bump(@, "included"),
                                    !.detailed_recommendations = Append(@, movie_details),
                                    !.movie_titles = Append(@, title)]
       IN  \E fails \in BOOLEAN :
           /\ fails => /\ leg.faults < MaxFaults
                       /\ ~already_processed /\ ~InSeq(title, leg.excluded_movies)
                       /\ movie_details.found /\ ~is_duplicate /\ is_valid
           /\ IF already_processed \/ InSeq(title, leg.excluded_movies)
              THEN leg' = AfterRetryPassTitle(leg) /\ UNCHANGED storeVars
              ELSE IF ~movie_details.found
              THEN /\ leg' = AfterRetryPassTitle(
                                [looked EXCEPT !.excluded_movies_info =
                                                   Append(@, ExcludedInfo(title, "not_found", leg.retry_count))])
                   /\ UNCHANGED storeVars
              ELSE IF is_duplicate
              THEN leg' = AfterRetryPassTitle(looked) /\ UNCHANGED storeVars
              ELSE IF ~is_valid
              THEN /\ leg' = AfterRetryPassTitle(
                                [checked EXCEPT !.validation_summary = Bump(@, "excluded_validation_failed"),
                                            !.excluded_movies_info =
                                                Append(@, ExcludedInfo(movie_details.title, "mismatch",
                                                                       leg.retry_count))])
                   /\ UNCHANGED storeVars
              ELSE IF fails
              THEN leg' = Finished([added EXCEPT !.faults = @ + 1]) /\ UNCHANGED storeVars
              ELSE /\ leg' = IF EarlyStop(added.validation_summary) THEN RetryPassDone(added)
                             ELSE AfterRetryPassTitle(added)
                   /\ SetDB(legacy_add_movie(DB, movie_details))
    /\ UNCHANGED <<pureVars, calls, client, bot, eng, outbound>>

\* the store before the call: empty, or the second movie of the catalog rated by the user
StoreWithRating ==
    /\ movies = { MovieRow(1, CHOOSE m \in LegacyCatalog : m.tmdb_id = 20) }
    /\ ratings = { RatingRow(1, 1, 1, 9) }
    /\ history = <<>>
    /\ user_preferences = {}
    /\ sqlite_sequence = [t \in Tables |-> IF t \in {"movies", "ratings"} THEN 1 ELSE 0]
    /\ last_insert_rowid = 1

InitLegacy ==
    /\ StoreEmpty \/ StoreWithRating
    /\ calls = <<>>
    /\ leg = IdleLegacy
    /\ PureIdle /\ EngineIdle
    /\ ClientIdle /\ BotIdle

NextLegacy ==
    \/ \E user_id \in LegacyUsers, user_query \in LegacyQueries, fails \in BOOLEAN :
           StartLegacy(user_id, user_query, fails)
    \/ \E generation \in LegacyGenerations : GenerateLegacy(generation)
    \/ FirstPassTitle
    \/ \E generation \in LegacyGenerations : RetryRound(generation)
    \/ RetryPassTitle

SpecLegacy == InitLegacy /\ [][NextLegacy]_vars

\* the call goes on as long as it has not returned
SpecLegacyFair == SpecLegacy /\ WF_vars(NextLegacy)


\* the condition of the claims on the counters of a pass
Insufficient(validation_summary) ==
    validation_summary.included < 2 /\ validation_summary.excluded_validation_failed > 0

\* C5: retry trigger.  After the first pass an additional generation round is issued if
\* and only if fewer than 2 candidates were accepted and at least one candidate was rejected
\* by validation; candidates that were not found by the provider or skipped as already
\* rated never cause a retry by themselves.
C5_RetryTrigger ==
    leg.first_pass_done
        => /\ (leg.retry_rounds >= 1 \/ leg.pc = "retry") <=> Insufficient(leg.first_pass)
           /\ leg.first_pass.excluded_validation_failed = 0 => leg.retry_rounds = 0

\* the case of C5: a round was issued after a first pass with a title that was not found
\* and a title that failed validation
C5_Witness ==
    /\ leg.first_pass_done /\ leg.retry_rounds >= 1
    /\ leg.first_pass.excluded_not_found > 0
    /\ leg.first_pass.excluded_validation_failed > 0

\* C6: retry bound.  In every execution at most 2 additional generation rounds are issued,
\* however many candidates keep failing validation, and after them the loop ends and a
\* result is returned.
C6_RetryBound ==
    /\ [](leg.retry_rounds <= 2)
    /\ (leg.first_pass_done ~> (leg.pc = "done" /\ leg.result.returned))

\* the case of C6: two rounds were issued and candidates still fail validation
C6_Witness ==
    /\ leg.pc = "done" /\ leg.retry_rounds = 2
    /\ Insufficient(leg.validation_summary)
    /\ leg.validation_summary.excluded_validation_failed >= 3

\* C7: an insufficient result is not an error.  When the retry rounds are exhausted or
\* aborted and fewer than 2 candidates are accepted while at least one was rejected by
\* validation, the result has no error field, holds every accepted record, and its text
\* carries the explanatory note.
C7_InsufficientNotError ==
    (leg.pc = "done" /\ leg.first_pass_done /\ Insufficient(leg.validation_summary))
        => /\ leg.result.returned /\ ~leg.result.error
           /\ leg.result.recommendations = leg.detailed_recommendations
           /\ Len(leg.result.recommendations) = leg.validation_summary.included
           /\ \E k \in 1..Len(leg.result.llm_response) :
                  leg.result.llm_response[k].part = "note_insufficient"

\* the case of C7: the call has returned with one accepted record after rejections
C7_Witness ==
    /\ leg.pc = "done" /\ leg.first_pass_done
    /\ Insufficient(leg.validation_summary)
    /\ leg.validation_summary.included = 1
    /\ leg.retry_rounds >= 1

(***************************************************************************)
(* recommendation.py: process_user_feedback.  The engine is constructed    *)
(* with a MovieDatabase; the repository has two classes of that name and   *)
(* the method table of each is listed here.  A call of a method the class  *)
(* does not define raises AttributeError.                                  *)
(***************************************************************************)

\* the methods of MovieDatabase in database.py
DatabaseMethods ==
    {"get_user", "add_user", "get_user_preferences", "clear_user_preferences",
     "clear_user_history", "get_user_history", "get_user_history_count", "get_movie",
     "get_movie_by_tmdb_id", "add_movie", "add_user_history", "get_user_ratings", "add_rating"}

\* the methods of MovieDatabase in database/movies.py
MoviesMethods ==
    {"add_user", "get_user", "add_movie", "get_movie", "get_movie_by_tmdb_id",
     "get_movie_id_by_tmdb_id", "add_user_preference", "get_user_preferences",
     "clear_user_preferences", "add_rating", "get_user_ratings", "add_user_history",
     "get_user_history", "clear_user_history", "update_movie", "delete_movie"}

StoreClasses == {"database", "database.movies"}

Methods(cls) == IF cls = "database" THEN DatabaseMethods ELSE MoviesMethods

(***************************************************************************)
(* Specification SpecFeedback: sequences of process_user_feedback calls of *)
(* one user on six stored movies with six distinct first genres            *)
(***************************************************************************)

MaxFeedbackCalls == 6

FeedbackUser == 1

\* the stored movies: provider id and first genre
FeedbackGenre ==
    [tmdb_id \in {10, 20, 30, 40, 50, 60} |->
        CASE tmdb_id = 10 -> G_boevik
          [] tmdb_id = 20 -> G_komediq
          [] tmdb_id = 30 -> G_drama
          [] tmdb_id = 40 -> G_ujasy
          [] tmdb_id = 50 -> G_triller
          [] tmdb_id = 60 -> G_melodrama]

FeedbackMovieIds == DOMAIN FeedbackGenre

FeedbackRatings == {8, 9, 10}

W_director == <<"d.", "i.", "r.", "e.", "c.", "t.", "o.", "r.">>

\* the first director of each stored movie
FeedbackDirector ==
    [tmdb_id \in FeedbackMovieIds |->
        CASE tmdb_id = 10 -> N_BrxdPitt
          [] tmdb_id = 20 -> N_TomHxnks
          [] tmdb_id = 30 -> N_TomasHxnks
          [] tmdb_id = 40 -> W_Tom
          [] tmdb_id = 50 -> W_Brxd
          [] tmdb_id = 60 -> W_Pitt]

\* the details get_movie_by_tmdb_id gives for a stored movie, None for any other id
FeedbackMovie(db, movie_id) ==
    IF \E row \in db.movies : row.tmdb_id = movie_id
    THEN [found |-> TRUE, genres |-> <<FeedbackGenre[movie_id]>>,
          directors |-> <<FeedbackDirector[movie_id]>>]
    ELSE [found |-> FALSE, genres |-> <<>>, directors |-> <<>>]

\* the stored values of one preference type of a user
PreferenceValues(prefs, user_id, preference_type) ==
    { row.preference_value :
          row \in { p \in prefs : p.user_id = user_id /\ p.preference_type = preference_type } }

\* pref_counts.get(type, 0) of lines 976-979
pref_count(prefs, user_id, preference_type) ==
    Cardinality({ p \in prefs : p.user_id = user_id /\ p.preference_type = preference_type })

\* a variant of lines 971-1001 that adds the first director after every rating of 9 or 10,
\* whatever the number of stored directors
learn_preferences_every_director(db, user_id, movie, rating) ==
    IF ~(movie.found /\ rating >= 9) THEN db
    ELSE IF movie.directors # <<>>
    THEN add_user_preference(db, user_id, W_director, movie.directors[1], FALSE).db
    ELSE db

\* lines 971-1001: the preferences learnt from a rating; current_preferences and
\* pref_counts are read once, before the genre is added
learn_preferences(db, user_id, movie, rating) ==
    IF ~(movie.found /\ rating >= 9) THEN db
    ELSE LET current_preferences == db.user_preferences
             with_genre ==
                 IF /\ movie.genres # <<>>
                    /\ pref_count(current_preferences, user_id, W_genre) < 5
                    /\ movie.genres[1] # <<>>
                    /\ movie.genres[1] \notin PreferenceValues(current_preferences, user_id, W_genre)
                 THEN add_user_preference(db, user_id, W_genre, movie.genres[1], FALSE).db
                 ELSE db
         IN  IF /\ movie.directors # <<>>
                /\ rating = 10
                /\ pref_count(current_preferences, user_id, W_director) < 3
                /\ movie.directors[1] # <<>>
                /\ movie.directors[1]
                       \notin PreferenceValues(current_preferences, user_id, W_director)
             THEN add_user_preference(with_genre, user_id, W_director, movie.directors[1],
                                      FALSE).db
             ELSE with_genre

\* a variant in which the rating is not saved (no such method), the AttributeError is not
\* raised and the learning adds a director after every rating of 9 or 10
process_user_feedback_every_director(db, cls, user_id, movie_id, rating) ==
    [db |-> learn_preferences_every_director(db, user_id, FeedbackMovie(db, movie_id), rating),
     ret |-> FALSE, raised |-> FALSE]

\* process_user_feedback: the first statement of the try block (line 963) calls
\* self.db.add_user_rating; with a class that has no such method the AttributeError is
\* caught at line 1004 and the call returns False with nothing written.  No class of the
\* repository has the method, so none reaches line 966; the lines after it are given for a
\* call that returned true, the rows of the missing method left out.
process_user_feedback(db, cls, user_id, movie_id, rating) ==
    IF "add_user_rating" \notin Methods(cls)
    THEN [db |-> db, ret |-> FALSE, raised |-> TRUE]
    ELSE LET logged == add_user_history(db, user_id, movie_id, <<"rated">>, FALSE).db
         IN  [db |-> learn_preferences(logged, user_id, FeedbackMovie(logged, movie_id), rating),
              ret |-> TRUE, raised |-> FALSE]

GenrePreference(id, user_id, genre) ==
    [id |-> id, user_id |-> user_id, preference_type |-> W_genre, preference_value |-> genre]

\* the genre preferences stored for a user
GenresOf(prefs, user_id) ==
    { row.preference_value : row \in { p \in prefs : p.user_id = user_id /\ p.preference_type = W_genre } }

NoFeedback ==
    [fn |-> "process_user_feedback", n |-> 0, user_id |-> 0, movie_id |-> 0, rating |-> 0,
     high |-> <<>>, preferences_before |-> {}, ratings_before |-> {}, history_before |-> <<>>]

InitFeedback ==
    /\ movies = { MovieRow(tmdb_id \div 10, [tmdb_id |-> tmdb_id, title |-> <<"a">>,
                                             original_title |-> <<"e.">>]) : tmdb_id \in FeedbackMovieIds }
    /\ ratings = {}
    /\ history = <<>>
    /\ user_preferences \in { {}, {GenrePreference(1, FeedbackUser, G_romantika)} }
    /\ sqlite_sequence = [t \in Tables |-> IF t = "movies" THEN 6
                                          ELSE IF t = "user_preferences" THEN Cardinality(user_preferences)
                                          ELSE 0]
    /\ last_insert_rowid = 6
    /\ calls = <<>>
    /\ args = NoFeedback
    /\ ret = NoRet
    /\ EngineIdle /\ LegacyIdle
    /\ ClientIdle /\ BotIdle

\* a call of process_user_feedback; args keeps the call, the number of calls so far, the
\* first genres of the movies rated 9 or 10 so far (in the order of their first such
\* rating) and the tables as they were before the call
CallProcessUserFeedback ==
    /\ args.fn = "process_user_feedback"
    /\ args.n < MaxFeedbackCalls
    /\ \E cls \in StoreClasses, movie_id \in FeedbackMovieIds, rating \in FeedbackRatings :
         LET r == process_user_feedback(DB, cls, FeedbackUser, movie_id, rating)
             genre == FeedbackGenre[movie_id]
         IN  /\ SetDB(r.db)
             /\ args' = [fn |-> "process_user_feedback", n |-> args.n + 1,
                         user_id |-> FeedbackUser, movie_id |-> movie_id, rating |-> rating,
                         high |-> IF rating >= 9 /\ ~InSeq(genre, args.high)
                                  THEN Append(args.high, genre) ELSE args.high,
                         preferences_before |-> user_preferences,
                         ratings_before |-> ratings, history_before |-> history]
             /\ ret' = <<r.ret>>
    /\ UNCHANGED <<calls, client, bot, eng, outbound, leg>>

NextFeedback == CallProcessUserFeedback

SpecFeedback == InitFeedback /\ [][NextFeedback]_vars

FeedbackCalled == args.fn = "process_user_feedback" /\ args.n > 0

\* C11: preference cap.  After any sequence of process_user_feedback calls the user has at
\* most 5 stored genre preferences and a call never removes a stored one; after ratings of 9
\* or 10 on movies with 6 distinct first genres (and no genre stored before) exactly the
\* first 5 of these genres are stored.
C11_PreferenceCap ==
    FeedbackCalled
        => /\ Cardinality(GenresOf(user_preferences, FeedbackUser)) <= 5
           /\ GenresOf(args.preferences_before, FeedbackUser) \subseteq GenresOf(user_preferences, FeedbackUser)
           /\ (Len(args.high) = 6 /\ args.n = 6 /\ sqlite_sequence.user_preferences = 0)
                 => GenresOf(user_preferences, FeedbackUser) = { args.high[k] : k \in 1..5 }

\* the case of C11: six calls with a rating of 9 or 10, on six movies with distinct first
\* genres, of a user without stored preferences
C11_Witness ==
    /\ FeedbackCalled /\ args.n = 6 /\ Len(args.high) = 6
    /\ sqlite_sequence.user_preferences = 0
    /\ ret = <<FALSE>>

\* the rows of one preference type a call has added for its user
AddedPreferences(preference_type) ==
    { p \in user_preferences \ args.preferences_before :
          p.user_id = args.user_id /\ p.preference_type = preference_type }

C20_LearningThreshold ==
    (FeedbackCalled /\ args.rating < 9)
        => /\ user_preferences = args.preferences_before
           /\ \E row \in ratings : /\ row.user_id = args.user_id
                                   /\ row.movie_id = args.movie_id
                                   /\ row.rating = args.rating
           /\ Len(history) = Len(args.history_before) + 1
           /\ history[Len(history)].user_id = args.user_id
           /\ history[Len(history)].movie_id = args.movie_id

\* the case of C20: a call with rating 8 of a user who has a stored genre preference
C20_Witness ==
    /\ FeedbackCalled /\ args.rating = 8
    /\ args.preferences_before # {}
    /\ ret = <<FALSE>>

(***************************************************************************)
(* Specification SpecRetry: one call of LLMGenerator.generate or of        *)
(* TMDBAgent._make_request                                                 *)
(***************************************************************************)

InitRetry ==
    /\ client = IdleClient /\ BotIdle
    /\ PureIdle /\ StoreIdle /\ EngineIdle /\ LegacyIdle

NextRetry ==
    \/ \E fn \in ClientMethods : CallClient(fn)
    \/ \E outcome \in {"ok", "http_status_error", "request_error", "invalid_format", "other"} :
          Attempt(outcome)
    \/ Sleep

SpecRetry == InitRetry /\ [][NextRetry]_vars

Failures(log) == { k \in 1..Len(log) : log[k] # "ok" }

\* C17: bounded client retry.  A call of generate or of _make_request makes at most 3
\* attempts; it sleeps only between two attempts, 1 second after the first and 2 seconds
\* after the second (not after a success, not after the last attempt); it never raises, and
\* after the third failed attempt it returns its failure value (the apology text, None).
C17_BoundedClientRetry ==
    /\ Len(client.log) <= 3
    /\ client.sleeps \in { <<>>, <<1>>, <<1, 2>> }
    /\ Len(client.sleeps) = client.attempt
    /\ client.pc \in {"attempt", "sleep"} => Failures(client.log) = 1..Len(client.log)
    /\ client.pc = "attempt" => Len(client.log) = Len(client.sleeps)
    /\ client.pc = "done"
          => /\ client.result.returned /\ ~client.result.raised
             /\ Len(client.sleeps) = Len(client.log) - 1
             /\ client.result = Exhausted(client.fn)
                   <=> (Len(client.log) = 3 /\ Failures(client.log) = 1..3)
             /\ client.result = Answer(client.fn) <=> client.log[Len(client.log)] = "ok"

\* the case of C17: three failed attempts of generate, the last with an answer without
\* 'choices', and the failure text returned
C17_Witness ==
    /\ client.fn = "generate" /\ client.pc = "done"
    /\ client.log = <<"http_status_error", "request_error", "invalid_format">>
    /\ client.sleeps = <<1, 2>>
    /\ client.result = Exhausted("generate")

(***************************************************************************)
(* Specification SpecConcurrent: two calls of generate_recommendations, of *)
(* two users, interleaved at their await points (one event loop, so the    *)
(* statements between two awaits of a call run without interruption)       *)
(***************************************************************************)

\* both generations name the first two movies of the catalog, in opposite orders
ConcurrentItemLists ==
    { <<CoreItem(<<"a">>, Y2010, "bare"), CoreItem(<<"b">>, Y2014, "bare")>>,
      <<CoreItem(<<"b">>, Y2014, "bare"), CoreItem(<<"a">>, Y2010, "bare")>> }

ConcurrentGenerations == { CandidateGeneration(FormatItems(its)) : its \in ConcurrentItemLists }

InitConcurrent ==
    /\ StoreEmpty
    /\ calls = <<>>
    /\ PureIdle /\ EngineIdle /\ LegacyIdle /\ ClientIdle /\ BotIdle

\* call r is the call of user r
NextConcurrent ==
    \E r \in ReqIds :
        \/ Start(r, r, Q_kino, "proper", FALSE)
        \/ DetectLanguage(r, Code_uk)
        \/ \E generation \in ConcurrentGenerations : GenerateCandidates(r, generation)
        \/ \E movie_data \in Catalog \cup {NoMovie} : Search(r, movie_data)
        \/ Validate(r)
        \/ Summarize(r, SummaryText)

SpecConcurrent == InitConcurrent /\ [][NextConcurrent]_vars

\* the events of a user in the order of the log
EventsOf(user_id) == SelectSeq(history, LAMBDA row : row.user_id = user_id)

\* the provider id of the movie row an event refers to (None when there is no such row)
ProviderIdOf(movie_id) ==
    IF \E row \in movies : row.id = movie_id
    THEN (CHOOSE row \in movies : row.id = movie_id).tmdb_id
    ELSE NoId

EventProviderIds(user_id) ==
    [k \in 1..Len(EventsOf(user_id)) |-> ProviderIdOf(EventsOf(user_id)[k].movie_id)]

AcceptedProviderIds(e) ==
    [k \in 1..Len(e.valid_recommendations) |-> e.valid_recommendations[k].tmdb_id]

RECURSIVE IsSubsequence(_, _)
IsSubsequence(s, t) ==
    IF s = <<>> THEN TRUE
    ELSE IF t = <<>> THEN FALSE
    ELSE IF Head(s) = Head(t) THEN IsSubsequence(Tail(s), Tail(t))
    ELSE IsSubsequence(s, Tail(t))

\* C18: history ordering.  At every moment of every interleaving of the two calls, the
\* events of the user of a call, read in the order of the log, name the movies the call
\* has accepted in the order it accepted them: all of them when no statement of the store
\* failed during the call, otherwise these without the movies whose event was not written.
\* Every event has the action kind the engine passes, "recommendation".
C18_HistoryOrder ==
    \A r \in ReqIds :
        LET e == eng[r]
        IN  e.pc # "idle"
               => /\ IsSubsequence(EventProviderIds(e.user_id), AcceptedProviderIds(e))
                  /\ e.faults = 0 => EventProviderIds(e.user_id) = AcceptedProviderIds(e)
                  /\ \A k \in 1..Len(history) : history[k].action_type = "recommendation"

\* the case of C18: the two calls accepted the same two movies in opposite orders and
\* their events alternate in the log
C18_Witness ==
    /\ eng[1].pc = "done" /\ eng[2].pc = "done"
    /\ eng[1].faults = 0 /\ eng[2].faults = 0
    /\ AcceptedProviderIds(eng[1]) = <<10, 20>>
    /\ AcceptedProviderIds(eng[2]) = <<20, 10>>
    /\ [k \in 1..Len(history) |-> history[k].user_id] = <<1, 2, 1, 2>>

Accepts(e, tmdb_id) == \E k \in 1..Len(e.valid_recommendations) : e.valid_recommendations[k].tmdb_id = tmdb_id

\* C19: concurrent upserts.  In every interleaving of the two calls there is at most one
\* movie row for a provider id, every event refers to a movie row, and a call during which
\* no statement of the store failed has, for every movie it accepted, an event against the
\* one row of that movie's provider id; so two calls that accepted the same movie have
\* their events against the same internal id.
C19_ConcurrentUpserts ==
    /\ \A row1, row2 \in movies : row1.tmdb_id = row2.tmdb_id => row1 = row2
    /\ \A k \in 1..Len(history) : ProviderIdOf(history[k].movie_id) # NoId
    /\ \A r \in ReqIds : \A m \in Catalog :
          eng[r].faults = 0 /\ Accepts(eng[r], m.tmdb_id)
             => \E row \in movies :
                   /\ row.tmdb_id = m.tmdb_id
                   /\ \E k \in 1..Len(history) : /\ history[k].user_id = eng[r].user_id
                                                 /\ history[k].movie_id = row.id

\* the case of C19: both calls ended, both accepted the movie with provider id 10, the
\* second after the first had stored it, and the two events carry the id of its one row
C19_Witness ==
    /\ eng[1].pc = "done" /\ eng[2].pc = "done"
    /\ eng[1].faults = 0 /\ eng[2].faults = 0
    /\ Accepts(eng[1], 10) /\ Accepts(eng[2], 10)
    /\ \E row \in movies :
          /\ row.tmdb_id = 10
          /\ \E j, k \in 1..Len(history) : /\ history[j].user_id = 1 /\ history[k].user_id = 2
                                           /\ history[j].movie_id = row.id
                                           /\ history[k].movie_id = row.id

(***************************************************************************)
(* Specification SpecDetect: detect_language applied to a text, with the   *)
(* generation call raising or returning a text in each attempt             *)
(***************************************************************************)

\* the length of a generated answer to the language question
MaxCodeLen == 3

\* the characters of the answers: Latin letters, a Cyrillic letter, a space, a digit, a quote
CodeChars == {"e.", "N.", "a", " ", "1", "^"}

RECURSIVE TextsUpTo(_, _)
TextsUpTo(chars, n) ==
    IF n = 0 THEN {<<>>}
    ELSE LET shorter == TextsUpTo(chars, n - 1)
         IN  shorter \cup { Append(t, c) : t \in { t2 \in shorter : Len(t2) = n - 1 }, c \in chars }

\* the texts self.llm.generate returns: short texts, the text of its terminal failure and
\* a content that is not a string
DetectResponses == TextsUpTo(CodeChars, MaxCodeLen) \cup {GenerationFailedText, NoneText}

\* the behaviours of the three attempts: k raising attempts followed by an answer
DetectAttempts ==
    { [k \in 1..retries |-> IF k <= n THEN RaisedAttempt ELSE response] :
          n \in 0..retries, response \in DetectResponses }

DetectTexts == { Q_kino, <<"e.", "n.">>, <<>>, NoneText }

InitDetect ==
    /\ args \in [fn : {"detect_language"}, text : DetectTexts]
    /\ ret = NoRet
    /\ StoreIdle /\ EngineIdle /\ LegacyIdle /\ ClientIdle /\ BotIdle

CallDetectLanguage ==
    /\ args.fn = "detect_language" /\ ret = NoRet
    /\ \E attempts \in DetectAttempts :
         ret' = <<[attempts |-> attempts, result |-> detect_language_attempts(args.text, attempts)]>>
    /\ UNCHANGED <<args, storeVars, calls, client, bot, eng, outbound, leg>>

NextDetect == CallDetectLanguage

SpecDetect == InitDetect /\ [][NextDetect]_vars

Detected == args.fn = "detect_language" /\ ret # NoRet

\* the text the detection decided on: the answer of the first attempt that did not raise
DecidingAnswer ==
    LET attempts == ret[1].attempts
        Returned == { k \in 1..retries : attempts[k] # RaisedAttempt }
    IN  IF Returned = {} THEN RaisedAttempt
        ELSE attempts[CHOOSE k \in Returned : \A k2 \in Returned : k <= k2]

\* C21: language detection output.  Whatever the generation call returns or raises in the
\* three attempts, detect_language raises nothing and returns None or a text of exactly two
\* letters; it returns None for the text of the terminal generation failure, for a content
\* that is no string, and for every answer without two Latin letters in a row.
C21_DetectionOutput ==
    Detected =>
        LET value == ret[1].result.value
            answer == DecidingAnswer
        IN  /\ ~ret[1].result.raised
            /\ value = NoneText \/ (Len(value) = 2 /\ IsAlpha(value))
            /\ answer \in {GenerationFailedText, NoneText, RaisedAttempt} => value = NoneText
            /\ (answer # NoneText
                  /\ ~\E i \in 1..(Len(answer) - 1) :
                        LowerChar(answer[i]) \in LatinLower /\ LowerChar(answer[i + 1]) \in LatinLower)
                  => value = NoneText

\* the case of C21: two attempts raise and the third returns a malformed answer (one Latin
\* letter, a digit and a quote), and the detection returns None
C21_Witness ==
    /\ Detected /\ args.text = Q_kino
    /\ ret[1].attempts = <<RaisedAttempt, RaisedAttempt, <<"e.", "1", "^">>>>
    /\ ret[1].result.value = NoneText
    /\ ret[1].result.generate_calls = 3

(***************************************************************************)
(* Specification SpecDifferent: is_translation_different applied to a      *)
(* title and a translation of it, and the choice of the search title       *)
(***************************************************************************)

Long20 == <<"a", "b", "v", "d", "e", "j", "z", "i", "k", "l", "m", "n", "o", "p", "r", "s", "t", "u", "h", "c">>
Long19 == SubSeq(Long20, 1, 19)

\* the texts compared: short and long ones, with other case, quotes, a label, one letter
\* changed or added, the text of the generation failure, the empty text and None
DifferentTexts ==
    { <<"a", "b">>, <<"A", "b">>, <<"<", "a", "b", ">">>, <<"e.", "n.">>,
      <<"p", "e", "r", "e", "v", "o", "d", " ", "a", "b">>, <<"a", "b", " ", "(", "x", ")">>,
      Long20, [Long20 EXCEPT ![20] = "y"], Long19, [Long19 EXCEPT ![19] = "y"],
      GenerationFailedText, <<>>, NoneText }

InitDifferent ==
    /\ args \in [fn : {"is_translation_different"}, original_text : DifferentTexts,
                 translated_text : DifferentTexts]
    /\ ret = NoRet
    /\ StoreIdle /\ EngineIdle /\ LegacyIdle /\ ClientIdle /\ BotIdle

CallIsTranslationDifferent ==
    /\ args.fn = "is_translation_different" /\ ret = NoRet
    /\ ret' = <<[result |-> is_translation_different(args.original_text, args.translated_text),
                 title_for_tmdb_search |-> TitleForTmdbSearch(args.original_text, args.translated_text)]>>
    /\ UNCHANGED <<args, storeVars, calls, client, bot, eng, outbound, leg>>

NextDifferent == CallIsTranslationDifferent

SpecDifferent == InitDifferent /\ [][NextDifferent]_vars

Compared == args.fn = "is_translation_different" /\ ret # NoRet

CleanedLower(text) == Lower(clean_llm_response(text))

\* C22: is_translation_different is true exactly when both texts are non-empty, their
\* cleaned lower-cased forms differ and the similarity ratio of these forms is below 0.95
\* (not at least 95/100); it is false when the translation equals the original, and a
\* translation for which it is false is not the title searched for.
C22_TranslationDifferent ==
    Compared =>
        /\ ret[1].result
              <=> /\ args.original_text \notin {<<>>, NoneText}
                  /\ args.translated_text \notin {<<>>, NoneText}
                  /\ CleanedLower(args.original_text) # CleanedLower(args.translated_text)
                  /\ ~RatioAtLeast(CleanedLower(args.original_text),
                                   CleanedLower(args.translated_text), 95, 100)
        /\ args.translated_text = args.original_text => ~ret[1].result
        /\ ~ret[1].result => ret[1].title_for_tmdb_search = args.original_text
        /\ ret[1].result => ret[1].title_for_tmdb_search = args.translated_text

\* the case of C22: a translation of 20 letters that differs from the original in one
\* letter has the ratio 38/40 = 0.95, which is not below 0.95: it counts as unchanged and
\* the original is searched for
C22_Witness ==
    /\ Compared
    /\ args.original_text = Long20
    /\ args.translated_text = [Long20 EXCEPT ![20] = "y"]
    /\ ~ret[1].result
    /\ ret[1].title_for_tmdb_search = Long20

(***************************************************************************)
(* Specification SpecRounds: one call of generate_recommendations of       *)
(* recommendation.py whose first generation names three movies and whose   *)
(* retry generations name three other movies                               *)
(***************************************************************************)

InitRounds ==
    /\ StoreEmpty
    /\ calls = <<>>
    /\ leg = IdleLegacy
    /\ PureIdle /\ EngineIdle /\ ClientIdle /\ BotIdle

NextRounds ==
    \/ StartLegacy(1, Q_kino, FALSE)
    \/ GenerateLegacy(FirstGeneration)
    \/ FirstPassTitle
    \/ RetryRound(RetryGeneration)
    \/ RetryPassTitle

SpecRounds == InitRounds /\ [][NextRounds]_vars

Repeated(log) == \E j, k \in 1..Len(log) : j < k /\ log[j].title = log[k].title

\* C23: new candidates only.  During one call no extracted title is looked up twice and
\* none is validated twice, whatever the rounds propose.
C23_NewCandidatesOnly == ~Repeated(leg.lookups) /\ ~Repeated(leg.validations)

\* the case of C23: a title that was looked up and failed validation in the first retry
\* round is looked up and validated again in the second
C23_Witness ==
    \E j, k \in 1..Len(leg.validations) :
        /\ leg.validations[j].title = leg.validations[k].title
        /\ leg.validations[j].round = 1 /\ leg.validations[k].round = 2
        /\ \E i \in 1..Len(leg.excluded_movies_info) :
              leg.excluded_movies_info[i].reason = "mismatch" /\ leg.excluded_movies_info[i].retry = 1
        /\ Repeated(leg.lookups)

\* the provider ids of the records accepted so far
IncludedIds == { leg.detailed_recommendations[k].tmdb_id : k \in 1..Len(leg.detailed_recommendations) }

\* C24: early stop.  A title of a retry round is processed only while fewer than 3 movies
\* are included, so after a retry round at most 3 are included; when the third is included
\* in a round, it is the last title looked up and validated, the call returns, and the
\* store holds no movie that is not among the included ones.
C24_EarlyStop ==
    /\ leg.pc = "retry_pass" => leg.validation_summary.included < 3
    /\ leg.retry_rounds >= 1 => leg.validation_summary.included <= 3
    /\ (leg.retry_rounds >= 1 /\ leg.validation_summary.included = 3)
          => /\ leg.pc = "done"
             /\ leg.lookups[Len(leg.lookups)].title = leg.movie_titles[Len(leg.movie_titles)]
             /\ leg.validations[Len(leg.validations)].title = leg.movie_titles[Len(leg.movie_titles)]
             /\ { row.tmdb_id : row \in movies } \subseteq IncludedIds

\* the case of C24: one movie was included in the first pass, the first two titles of the
\* retry round were included, and the third title of the round was never looked up
C24_Witness ==
    /\ leg.pc = "done" /\ leg.retry_rounds = 1
    /\ leg.first_pass.included = 1
    /\ leg.validation_summary.included = 3
    /\ Len(leg.retry_movie_titles) = 3
    /\ ~\E k \in 1..Len(leg.lookups) : leg.lookups[k].title = leg.retry_movie_titles[3]
    /\ Cardinality(movies) = 3

\* C30: retry prompt content.  The prompt of the n-th retry round names every movie that
\* failed validation before that round (in the first pass or in an earlier round).
C30_RetryPromptContent ==
    \A n \in 1..Len(leg.retry_prompts) :
        \A k \in 1..Len(leg.excluded_movies_info) :
            (leg.excluded_movies_info[k].reason = "mismatch" /\ leg.excluded_movies_info[k].retry < n)
                => InSeq(leg.excluded_movies_info[k], leg.retry_prompts[n])

\* the case of C30: three movies failed validation in the first pass and three in the
\* first retry round; the prompt of the second round names the last five of them only
C30_Witness ==
    /\ Len(leg.retry_prompts) = 2
    /\ Len(leg.retry_prompts[2]) = 5
    /\ \E k \in 1..Len(leg.excluded_movies_info) :
          /\ leg.excluded_movies_info[k].reason = "mismatch" /\ leg.excluded_movies_info[k].retry = 0
          /\ ~InSeq(leg.excluded_movies_info[k], leg.retry_prompts[2])

(***************************************************************************)
(* Specification SpecFallback: _fallback_validation applied to a query and *)
(* the genres of a movie                                                   *)
(***************************************************************************)

FallbackQueries ==
    { G_boevik, JoinWords(<<G_boevik, W_s, Q_Tomom, Q_Hxnksom>>), Title(G_xkshn), G_action,
      Q_kino, G_komediq, G_melodrama, G_ujasy, JoinWords(<<G_detskij, Q_kino>>) }

FallbackGenreLists ==
    { <<>>, <<Title(G_komediq)>>, <<Title(G_melodrama)>>, <<Title(G_dokumentalnyj)>>,
      <<Title(G_melodrama), Title(G_komediq)>>, <<Title(G_boevik)>>, <<Title(G_drama)>>,
      <<Title(G_boevik), Title(G_komediq)>>, <<Title(G_dokumentalnyj), Title(G_boevik)>>,
      <<Title(G_dokumentalnyj), Title(G_triller)>>, <<Title(G_komediq), Title(G_priklwceniq)>>,
      <<NoneText>> }

InitFallback ==
    /\ args \in [fn : {"fallback_validation"}, user_query : FallbackQueries,
                 movie_data : [found : {TRUE}, title : {<<"a">>}, actors : {<<>>}, directors : {<<>>},
                               genres : FallbackGenreLists]]
    /\ ret = NoRet
    /\ StoreIdle /\ EngineIdle /\ LegacyIdle /\ ClientIdle /\ BotIdle

CallFallbackValidation ==
    /\ args.fn = "fallback_validation" /\ ret = NoRet
    /\ ret' = <<[result |-> fallback_validation(args.movie_data, args.user_query)]>>
    /\ UNCHANGED <<args, storeVars, calls, client, bot, eng, outbound, leg>>

NextFallback == CallFallbackValidation

SpecFallback == InitFallback /\ [][NextFallback]_vars

FallbackCalled == args.fn = "fallback_validation" /\ ret # NoRet

\* the genres of the candidate, lower-cased (the record holds strings only)
CandidateGenres == { Lower(g) : g \in SeqToSet(args.movie_data.genres) }

ActionRequested == \E word \in action_words : Contains(Lower(args.user_query), word)

\* C26: fallback genre exclusion.  For a query that asks for an action film, a candidate
\* with genres that are all among melodrama, comedy and documentary is rejected, and a
\* candidate that has an action-type genre, one of them a genre the query asks for, is
\* accepted (no incompatible genre it also has makes the heuristic reject it).
C26_FallbackGenreExclusion ==
    (FallbackCalled /\ ActionRequested /\ ~HasNone(args.movie_data.genres))
        => /\ (CandidateGenres # {} /\ CandidateGenres \subseteq {G_melodrama, G_komediq, G_dokumentalnyj})
                 => ret[1].result = FALSE
           /\ (/\ CandidateGenres \cap action_genres # {}
               /\ CandidateGenres \cap expected_genres(Lower(args.user_query)) # {})
                 => ret[1].result = TRUE

\* the case of C26: the query asks for "boevik" and the candidate is an action comedy
C26_Witness ==
    /\ FallbackCalled
    /\ args.user_query = G_boevik
    /\ args.movie_data.genres = <<Title(G_boevik), Title(G_komediq)>>
    /\ ret[1].result = FALSE

(***************************************************************************)
(* Specification SpecCollect: the feedback conversation of the bot, with   *)
(* an INSERT that commits or raises                                        *)
(***************************************************************************)

MaxBotCalls == 3

FeedbackTexts == { "otzyv", "ploho" }
FeedbackCommandTexts == { "/feedback" }
InsertOutcomes == { "ok", "sqlite_error", "other_error" }

FeedbackSavedText == "Spasibo! Vash otzyv uspeshno sohranen."
FeedbackNotSavedText ==
    "Proizoshla oshibka pri sohranenii otzyva. Pozhalujsta, poprobujte eshche raz."
FeedbackAgentMissingText == "Oshibka: Agent obratnoj svyazi nedostupen."

\* a reply sent as it is, and formatter.py, format_error: the message wrapped in the error
\* frame
PlainReply(message) == [frame |-> "plain", message |-> message]
format_error(message) == [frame |-> "error", message |-> message]

\* bool(value) of Python for the values a save method returns, written "None", "True",
\* "False"
Truthy(value) == value \notin { None, "False" }

\* FeedbackAgent.save_feedback: the INSERT appends a row and commits, or raises and both
\* except clauses only log; the function has no return statement, so its value is None in
\* either case
save_feedback(table, user_id, query, feedback, outcome) ==
    [table |-> IF outcome = "ok"
               THEN Append(table, [user_id |-> user_id, query |-> query, feedback |-> feedback])
               ELSE table,
     value |-> None]

\* handlers.py, the feedback command: remembers the text of the message for the row
FeedbackCommand(user_id, text) ==
    /\ Len(bot.collected) < MaxBotCalls
    /\ bot.last_user_query_for_feedback[user_id] = NoLastQuery
    /\ bot' = [bot EXCEPT !.last_user_query_for_feedback[user_id] = text]
    /\ UNCHANGED <<pureVars, storeVars, calls, client, eng, outbound, leg>>

\* callbacks.py, collect_feedback: the whole handler
CollectFeedback(user_id, feedback_text, agent_present, outcome) ==
    /\ Len(bot.collected) < MaxBotCalls
    /\ IF ~agent_present
       THEN bot' = [bot EXCEPT
                      !.replies = Append(@, [chat_id |-> user_id,
                                             text |-> format_error(FeedbackAgentMissingText)]),
                      !.collected = Append(@, [user_id |-> user_id, agent |-> FALSE,
                                               appended |-> FALSE,
                                               reply |-> format_error(FeedbackAgentMissingText)])]
       ELSE LET last_query == bot.last_user_query_for_feedback[user_id]
                saved == save_feedback(bot.feedback, user_id, last_query, feedback_text,
                                       outcome)
                reply == IF Truthy(saved.value) THEN PlainReply(FeedbackSavedText)
                         ELSE format_error(FeedbackNotSavedText)
            IN  bot' = [bot EXCEPT
                          !.feedback = saved.table,
                          !.replies = Append(@, [chat_id |-> user_id, text |-> reply]),
                          !.collected = Append(@, [user_id |-> user_id, agent |-> TRUE,
                                                   appended |-> outcome = "ok",
                                                   reply |-> reply]),
                          !.last_user_query_for_feedback[user_id] = NoLastQuery]
    /\ UNCHANGED <<pureVars, storeVars, calls, client, eng, outbound, leg>>

InitCollect ==
    /\ BotIdle
    /\ PureIdle /\ StoreIdle /\ EngineIdle /\ LegacyIdle /\ ClientIdle

NextCollect ==
    \/ \E user_id \in BotUsers, text \in FeedbackCommandTexts : FeedbackCommand(user_id, text)
    \/ \E user_id \in BotUsers, feedback_text \in FeedbackTexts, agent_present \in BOOLEAN,
          outcome \in InsertOutcomes :
          CollectFeedback(user_id, feedback_text, agent_present, outcome)

SpecCollect == InitCollect /\ [][NextCollect]_vars

\* C31: feedback persistence signal.  Whenever collect_feedback ran with the agent present
\* and save_feedback appended the feedback row, the reply says the feedback was saved; the
\* error reply about saving is sent only when the append failed.
C31_FeedbackSignal ==
    \A i \in 1..Len(bot.collected) :
        LET c == bot.collected[i]
        IN  /\ (c.agent /\ c.appended) => c.reply = PlainReply(FeedbackSavedText)
            /\ c.reply = format_error(FeedbackNotSavedText) => ~c.appended

\* the case of C31: the row of the feedback is in the table and the reply of that call is
\* the error reply
C31_Witness ==
    /\ Len(bot.collected) = 1 /\ bot.collected[1].appended
    /\ Len(bot.feedback) = 1 /\ bot.feedback[1].feedback = "otzyv"
    /\ bot.replies[1].text = format_error(FeedbackNotSavedText)

(***************************************************************************)
(* Specification SpecPreferences: sequences of add_user_preference calls   *)
(* of two users, with kinds and values in several letter cases             *)
(***************************************************************************)

MaxPreferenceCalls == 3

PreferenceUsers == {1, 2}
PreferenceTypes == { W_genre, Title(W_genre) }
PreferenceTexts == { <<"D", "r", "a", "m", "a">>, <<"d", "r", "a", "m", "a">>,
                     <<"D", "R", "A", "M", "A">>, G_komediq }

NoPreferenceCall ==
    [fn |-> "add_user_preference", n |-> 0, user_id |-> 0, preference_type |-> <<>>,
     preference_value |-> <<>>, fails |-> FALSE, ret |-> FALSE, preferences_before |-> {},
     added |-> {}]

InitPreferences ==
    /\ args = NoPreferenceCall
    /\ ret = NoRet
    /\ StoreIdle /\ EngineIdle /\ LegacyIdle /\ ClientIdle /\ BotIdle

CallAddUserPreferenceOf ==
    /\ args.fn = "add_user_preference"
    /\ args.n < MaxPreferenceCalls
    /\ \E user_id \in PreferenceUsers, preference_type \in PreferenceTypes,
          preference_value \in PreferenceTexts, fails \in BOOLEAN :
         LET r == add_user_preference(DB, user_id, preference_type, preference_value, fails)
         IN  /\ SetDB(r.db)
             /\ args' = [fn |-> "add_user_preference", n |-> args.n + 1, user_id |-> user_id,
                         preference_type |-> preference_type,
                         preference_value |-> preference_value, fails |-> fails,
                         ret |-> r.ret, preferences_before |-> user_preferences,
                         added |-> IF r.ret
                                   THEN args.added \cup {<<user_id, Lower(preference_type),
                                                           Lower(preference_value)>>}
                                   ELSE args.added]
    /\ UNCHANGED <<ret, calls, client, bot, eng, outbound, leg>>

NextPreferences == CallAddUserPreferenceOf

SpecPreferences == InitPreferences /\ [][NextPreferences]_vars

PreferenceAdded == args.fn = "add_user_preference" /\ args.n > 0 /\ args.ret

\* the (user, kind, value) of a row, without its id
PreferenceTriple(row) == <<row.user_id, row.preference_type, row.preference_value>>

\* the rows that carry the triple of the latest call, lower-cased
SameAsLatest(row) ==
    PreferenceTriple(row)
        = <<args.user_id, Lower(args.preference_type), Lower(args.preference_value)>>

\* C37: preference uniqueness.  Whatever was added for a user, and however often and in
\* whatever letter case, each added (user, kind, value) has exactly one stored row, which
\* holds the lower-cased kind and value; the call that adds a preference leaves the other
\* rows, of this and of any other user, as they were.
C37_PreferenceUniqueness ==
    /\ \A t \in args.added :
           Cardinality({ row \in user_preferences : PreferenceTriple(row) = t }) = 1
    /\ \A row \in user_preferences :
           /\ PreferenceTriple(row) \in args.added
           /\ row.preference_type = Lower(row.preference_type)
           /\ row.preference_value = Lower(row.preference_value)
    /\ PreferenceAdded
           => { row \in user_preferences : ~SameAsLatest(row) }
                  = { row \in args.preferences_before : ~SameAsLatest(row) }
    /\ (args.n > 0 /\ ~args.ret) => user_preferences = args.preferences_before

\* the case of C37: a preference that was stored before is added again in another letter
\* case, for a user who has another preference stored as well
C37_Witness ==
    /\ PreferenceAdded /\ args.n = 3
    /\ args.preference_value # Lower(args.preference_value)
    /\ args.preference_type # Lower(args.preference_type)
    /\ \E row \in args.preferences_before : SameAsLatest(row)
    /\ \E row \in args.preferences_before : row.user_id = args.user_id /\ ~SameAsLatest(row)
    /\ Cardinality(user_preferences) = 2

(***************************************************************************)
(* Specification SpecRouting: the generation attempts of consecutive       *)
(* generate_recommendations calls of one engine (recommendation.py lines   *)
(* 150-176, 299-387, 558-592), with the proxy mode the engine keeps        *)
(***************************************************************************)

MaxRequests == 2

NoProxy == "none"

\* max_retries of line 296: the attempts of the first generation
generation_max_retries == 3

\* what the API answers to the three attempts of a request
ApiAnswers ==
    { <<"ok", "ok", "ok">>, <<"403", "ok", "ok">>, <<"403", "403", "403">>,
      <<"429", "ok", "ok">>, <<"429", "429", "429">>, <<"429", "403", "ok">>,
      <<"other", "ok", "ok">>, <<"429", "429", "403">> }

\* what the proxy sources list during a request, and the proxies that pass _test_proxy
FetchedProxies == { <<>>, <<"p1", "p2">> }
WorkingProxies == { {}, {"p2"}, {"p1", "p2"} }

\* an exception raised after the generation, outside the attempt loop: none, or one whose
\* message holds "403"
LaterErrors == { "none", "403" }

RequestInputs ==
    [api : ApiAnswers, fetched : FetchedProxies, working : WorkingProxies, later : LaterErrors]

\* lines 165-176: up to max_attempts proxies are popped and tested
RECURSIVE TestProxies(_, _, _)
TestProxies(proxies, max_attempts, working) ==
    IF max_attempts = 0 \/ proxies = <<>> THEN [proxy |-> NoProxy, proxies |-> proxies]
    ELSE IF Head(proxies) \in working THEN [proxy |-> Head(proxies), proxies |-> Tail(proxies)]
    ELSE TestProxies(Tail(proxies), max_attempts - 1, working)

\* _setup_proxy_if_needed and _get_working_proxy
get_working_proxy(use_proxy, proxies, inputs) ==
    LET set_up == IF use_proxy /\ proxies = <<>> THEN inputs.fetched ELSE proxies
    IN  IF set_up = <<>> THEN [proxy |-> NoProxy, proxies |-> set_up]
        ELSE TestProxies(set_up, Min(5, Len(set_up)), inputs.working)

RoutingOutcome(kind, use_proxy, proxies, model_calls) ==
    [kind |-> kind, use_proxy |-> use_proxy, proxies |-> proxies, model_calls |-> model_calls]

\* lines 299-387 with the handler of lines 558-592: the attempts from the given one on;
\* "generated" says that the call goes on with the extraction
RECURSIVE GenerationAttempts(_, _, _, _, _)
GenerationAttempts(attempt, use_proxy, proxies, model_calls, inputs) ==
    LET got == IF use_proxy THEN get_working_proxy(use_proxy, proxies, inputs)
               ELSE [proxy |-> NoProxy, proxies |-> proxies]
        answer == inputs.api[attempt + 1]
    IN  IF got.proxy # NoProxy
        THEN RoutingOutcome("location_not_supported", use_proxy, got.proxies, model_calls)
        ELSE IF answer = "ok"
        THEN RoutingOutcome("generated", use_proxy, got.proxies, model_calls + 1)
        ELSE IF answer = "429" /\ attempt < generation_max_retries - 1
        THEN GenerationAttempts(attempt + 1, use_proxy, got.proxies, model_calls + 1, inputs)
        ELSE IF answer = "403"
        THEN IF attempt = generation_max_retries - 1
             THEN RoutingOutcome("location_not_supported", TRUE, got.proxies, model_calls + 1)
             ELSE GenerationAttempts(attempt + 1, TRUE, got.proxies, model_calls + 1, inputs)
        ELSE RoutingOutcome("error", use_proxy, got.proxies, model_calls + 1)

\* one request: the attempts, then the rest of the call, whose exception reaches the
\* handler of line 558 (lines 565-567 set the proxy mode when its message holds "403")
RoutedRequest(use_proxy, proxies, inputs) ==
    LET generated == GenerationAttempts(0, use_proxy, proxies, 0, inputs)
    IN  IF generated.kind = "generated" /\ inputs.later = "403"
        THEN [generated EXCEPT !.kind = "error", !.use_proxy = TRUE]
        ELSE generated

\* a request of the engine, from the call to the return of its generation outcome
Request(inputs) ==
    /\ Len(leg.requests) < MaxRequests
    /\ LET outcome == RoutedRequest(leg.use_proxy, leg.proxies, inputs)
       IN  leg' = [leg EXCEPT !.use_proxy = outcome.use_proxy,
                              !.proxies = outcome.proxies,
                              !.requests = Append(@, [inputs |-> inputs,
                                                      use_proxy_before |-> leg.use_proxy,
                                                      kind |-> outcome.kind,
                                                      model_calls |-> outcome.model_calls])]
    /\ UNCHANGED <<pureVars, storeVars, calls, client, bot, eng, outbound>>

InitRouting ==
    /\ leg = IdleLegacy
    /\ PureIdle /\ StoreIdle /\ EngineIdle /\ ClientIdle /\ BotIdle

NextRouting == \E inputs \in RequestInputs : Request(inputs)

SpecRouting == InitRouting /\ [][NextRouting]_vars

\* C38: no cross-request routing state.  Handling requests leaves the proxy mode and the
\* proxy list of the engine as they were at construction, and two requests that meet the same
\* answers of the API and of the proxy sources have the same outcome and make the same
\* number of generation calls, whatever happened in the requests before them.
C38_NoCrossRequestRoutingState ==
    /\ leg.use_proxy = IdleLegacy.use_proxy
    /\ leg.proxies = IdleLegacy.proxies
    /\ \A i, j \in 1..Len(leg.requests) :
           leg.requests[i].inputs = leg.requests[j].inputs
               => /\ leg.requests[i].kind = leg.requests[j].kind
                  /\ leg.requests[i].model_calls = leg.requests[j].model_calls

\* the case of C38: after a request whose three attempts were answered with 403, a request
\* that the API would have answered at once returns 'Location not supported' without a
\* generation call
C38_Witness ==
    /\ Len(leg.requests) = 2
    /\ leg.requests[1].inputs.api = <<"403", "403", "403">>
    /\ leg.requests[2].inputs.api = <<"ok", "ok", "ok">>
    /\ leg.requests[2].use_proxy_before
    /\ leg.requests[2].kind = "location_not_supported"
    /\ leg.requests[2].model_calls = 0

====
